---- MODULE Spec2Model ----
(***************************************************************************)
(* The AI gateway of the cultural-heritage platform (AIController): one    *)
(* request is a sequence of steps separated by the handler's awaits, the   *)
(* store is the Conversation and Entry collections.  Strings are           *)
(* sequences of one-character strings.                                     *)
(***************************************************************************)
EXTENDS Integers, Sequences, FiniteSets, TLC

\* ---------------------------------------------------------------- bounds
\* requests accepted during one behaviour
MaxRequests == 2
\* message pairs of the conversation the store holds at start
MaxSeed == 3
\* entries of the Entry collection
MaxEntries == 7
\* number of tokens of a generated tag list
MaxTokens == 17
\* fetchUsers calls of the user-management screen during one behaviour
MaxFetches == 3

\* ------------------------------------------------------ program constants
HistoryLimit == 5
EntryLimit == 5
DescriptionBudget == 200
CulturalContextBudget == 150
TitleBudget == 100
TagLengthLimit == 50
TagLimit == 15

\* ----------------------------------------------------------------- values
\* null as the value of a reference, undefined as the value of a text
Null == "null"
Undefined == <<"undefined">>

Users == {"u1", "u2"}

Min(a, b) == IF a < b THEN a ELSE b
Max(a, b) == IF a > b THEN a ELSE b

\* String.prototype.substring(from, to) for 0 <= from <= to
Substring(s, from, to) == SubSeq(s, from + 1, Min(to, Len(s)))

\* Array.prototype.slice(-n)
SliceLast(a, n) == SubSeq(a, Max(1, Len(a) - n + 1), Len(a))

\* Array.prototype.slice(0, n)
SliceFirst(a, n) == SubSeq(a, 1, Min(n, Len(a)))

\* the string of n copies of the character c
Repeat(c, n) == [i \in 1..n |-> c]

Digit == <<"0", "1", "2", "3", "4", "5", "6", "7", "8", "9">>

\* a text of n characters whose i-th character depends on i
Text(n) == [i \in 1..n |-> Digit[(i % 10) + 1]]

\* ------------------------------------------------------------------ state
VARIABLES
    envProvider,    \* process.env.AI_PROVIDER, "" when not set
    aiService,      \* this.aiService: Null or the client of a provider
    entries,        \* the Entry collection, in natural order
    conversations,  \* the Conversation collection: _id -> document
    nextId,         \* the next _id the store hands out
    now,            \* the clock read by new Date()
    served,         \* requests accepted so far
    req             \* per connection: the request in progress or last answered

\* the User collection, process.env, the SQL database with its connections,
\* and the user-management screen
VARIABLES users, processEnv, db, screen

rest == <<users, processEnv, db, screen>>

vars == <<envProvider, aiService, entries, conversations, nextId, now, served, req,
          users, processEnv, db, screen>>

\* process.env with JWT_SECRET set and NODE_ENV not production
DefaultEnv ==
    [JWT_SECRET |-> TRUE, JWT_REFRESH_SECRET |-> FALSE, NODE_ENV |-> "development"]

\* no user, no database opened, no screen mounted
RestAtStart ==
    /\ users = <<>>
    /\ processEnv = DefaultEnv
    /\ db = <<>>
    /\ screen = <<>>

\* the connections of the process
Slots == DOMAIN req

\* process.env.AI_PROVIDER || "openai"
ProviderName == IF envProvider = "" THEN "openai" ELSE envProvider

ToLowerCase(s) == IF s = "OpenAI" THEN "openai" ELSE s

\* initializeAIService: the client of the selected provider, or null when the
\* provider is not supported or loading its SDK throws
initializeAIService(env, sdkLoads) ==
    LET aiProvider == ToLowerCase(IF env = "" THEN "openai" ELSE env)
    IN  IF ~sdkLoads THEN Null
        ELSE IF aiProvider \in {"openai", "anthropic", "google"} THEN aiProvider
        ELSE Null

\* ------------------------------------------------------------- store: Entry
Published == "published"

EntryKinds ==
    << [author |-> "u1", status |-> "published", isPublic |-> TRUE,
        description |-> Text(DescriptionBudget + 1),
        culturalContext |-> Text(CulturalContextBudget + 1), country |-> "ET"],
       [author |-> "u1", status |-> "published", isPublic |-> FALSE,
        description |-> Text(DescriptionBudget),
        culturalContext |-> Text(CulturalContextBudget), country |-> ""],
       [author |-> "u2", status |-> "published", isPublic |-> TRUE,
        description |-> Text(DescriptionBudget + 60),
        culturalContext |-> Text(CulturalContextBudget - 1), country |-> "KE"],
       [author |-> "u1", status |-> "draft", isPublic |-> TRUE,
        description |-> Text(3), culturalContext |-> <<>>, country |-> "ET"],
       [author |-> "u1", status |-> "published", isPublic |-> TRUE,
        description |-> Text(DescriptionBudget - 1),
        culturalContext |-> <<>>, country |-> "ET"],
       [author |-> "u2", status |-> "draft", isPublic |-> FALSE,
        description |-> Text(7), culturalContext |-> Text(2), country |-> ""],
       [author |-> "u1", status |-> "published", isPublic |-> TRUE,
        description |-> Text(4), culturalContext |-> Text(2), country |-> "ET"] >>

\* n entries of the kind base, the entry at position at of the kind odd
EntryCollection(n, base, odd, at) ==
    [i \in 1..n |-> [id |-> i] @@ EntryKinds[IF i = at THEN odd ELSE base]]

EntryCollections(maxN) ==
    {EntryCollection(n, b, o, 2) :
        n \in 0..maxN, b \in 1..Len(EntryKinds), o \in 1..Len(EntryKinds)}

\* FindUserEntries without the status condition of the query
FindUserEntriesAnyStatus(userId) ==
    SliceFirst(SelectSeq(entries, LAMBDA e : e.author = userId), EntryLimit)

\* Entry.find({author, status: "published"}).limit(5)
FindUserEntries(userId) ==
    SliceFirst(SelectSeq(entries, LAMBDA e : e.author = userId /\ e.status = Published),
               EntryLimit)

\* EntryBlock with the cultural context copied whole
EntryBlockUncut(entry, index) ==
    [index |-> index + 1,
     entry |-> entry.id,
     description |-> Substring(entry.description, 0, DescriptionBudget),
     hasCulturalContext |-> entry.culturalContext /= <<>>,
     culturalContext |-> entry.culturalContext,
     country |-> entry.country]

\* one block of the reference context per entry (lines 86-103): the text taken
\* from each field, between the fixed words of the template
EntryBlock(entry, index) ==
    [index |-> index + 1,
     entry |-> entry.id,
     description |-> Substring(entry.description, 0, DescriptionBudget),
     hasCulturalContext |-> entry.culturalContext /= <<>>,
     culturalContext |->
        IF entry.culturalContext /= <<>>
        THEN Substring(entry.culturalContext, 0, CulturalContextBudget)
        ELSE <<>>,
     country |-> entry.country]

\* entryContext after the forEach over userEntries
BuildEntryContext(userEntries) ==
    [i \in 1..Len(userEntries) |-> EntryBlock(userEntries[i], i - 1)]

\* ------------------------------------------------------ store: Conversation
Questions == {<<"q", "1">>, <<"q", "2">>}
Answers == {<<"a", "1">>, <<"a", "2">>}

Message(role, content) == [role |-> role, content |-> content]

\* the pair pushed for one exchange (lines 202-205 and 213-216)
Exchange(question, aiResponse) ==
    <<Message("user", question), Message("assistant", aiResponse)>>

SeedQuestion(i) == IF i % 2 = 1 THEN <<"q", "1">> ELSE <<"q", "2">>
SeedAnswer(i) == IF i % 3 = 1 THEN <<"a", "1">> ELSE <<"a", "2">>

RECURSIVE SeedMessages(_)
SeedMessages(k) ==
    IF k = 0 THEN <<>>
    ELSE SeedMessages(k - 1) \o Exchange(SeedQuestion(k), SeedAnswer(k))

\* NewConversation with the answer stored before the question
NewConversationAnswerFirst(userId, question, aiResponse, time) ==
    [userId |-> userId,
     title |-> Substring(question, 0, TitleBudget),
     messages |-> <<Message("assistant", aiResponse), Message("user", question)>>,
     updatedAt |-> time]

\* new Conversation({userId, title, messages}) as saved
NewConversation(userId, question, aiResponse, time) ==
    [userId |-> userId,
     title |-> Substring(question, 0, TitleBudget),
     messages |-> Exchange(question, aiResponse),
     updatedAt |-> time]

\* Conversation.findOne({_id, userId}): the ids of the matching documents
FindOneConversation(id, userId) ==
    {c \in DOMAIN conversations : c = id /\ conversations[c].userId = userId}

\* ConversationHistory with slice(0, 5) in place of slice(-5)
ConversationHistoryFirstFive(id, userId) ==
    IF FindOneConversation(id, userId) = {} THEN <<>>
    ELSE SliceFirst(conversations[id].messages, HistoryLimit)

\* conversation.messages.slice(-5) of the document found, [] when none is found
ConversationHistory(id, userId) ==
    IF FindOneConversation(id, userId) = {} THEN <<>>
    ELSE SliceLast(conversations[id].messages, HistoryLimit)

\* conversation.messages.length of the document findOne returned, 0 for none
MessagesSeen(id, userId) ==
    IF FindOneConversation(id, userId) = {} THEN 0
    ELSE Len(conversations[id].messages)

\* FindByIdAndUpdate with $set in place of $push on messages
FindByIdAndUpdateSet(id, pair, time) ==
    IF id \in DOMAIN conversations
    THEN [conversations EXCEPT ![id].messages = pair, ![id].updatedAt = time]
    ELSE conversations

\* Conversation.findByIdAndUpdate(id, {$push: {messages: {$each: pair}},
\* $set: {updatedAt}}): the collection afterwards
FindByIdAndUpdate(id, pair, time) ==
    IF id \in DOMAIN conversations
    THEN [conversations EXCEPT ![id].messages = @ \o pair, ![id].updatedAt = time]
    ELSE conversations

\* an id no conversation of the run ever has
NoSuchId == MaxSeed + MaxRequests + 2

\* ---------------------------------------------------------------- requests
\* the feature flags of the status response, lines 738-744
FeatureNames ==
    {"questionsAndAnswers", "conversationHistory", "entrySuggestions",
     "tagGeneration", "culturalAnalysis"}

\* errors.array() of a request whose field path failed validation
FieldErrors(path) == <<[path |-> path, msg |-> "Invalid value"]>>

\* no error caught so far
NoError == [code |-> "none", status |-> 0]

\* a connection with no request yet
Idle ==
    [pc |-> "idle", kind |-> "none", user |-> "none", question |-> <<>>,
     includeEntries |-> FALSE, conversationId |-> 0,
     entryContext |-> <<>>, conversationHistory |-> <<>>, prompted |-> FALSE,
     aiResponse |-> Undefined, status |-> 0, answer |-> Undefined,
     newConversationId |-> 0, storeOps |-> {}, adapterCalls |-> 0,
     role |-> "user", entryId |-> 0, tags |-> <<>>, count |-> 0,
     valid |-> TRUE, seen |-> 0, error |-> NoError,
     page |-> 0, limit |-> 0, listed |-> <<>>, total |-> 0, totalPages |-> 0,
     returned |-> <<>>, available |-> FALSE, provider |-> "none",
     features |-> [f \in FeatureNames |-> FALSE], errors |-> <<>>]

CanAccept(r) == req[r].pc \in {"idle", "done"} /\ served < MaxRequests

\* Fail without the return: the response is sent and the handler goes on
FailAndGoOn(q, code) == [q EXCEPT !.status = code]

\* res.status(code).json(...) of a failure
Fail(q, code) ==
    [q EXCEPT !.pc = "done", !.status = code, !.entryContext = <<>>,
              !.conversationHistory = <<>>, !.aiResponse = Undefined]

\* res.json({success: true, data: {question, answer, conversationId, ...}})
Succeed(q, newConversationId) ==
    [q EXCEPT !.pc = "done", !.status = 200, !.answer = q.aiResponse,
              !.newConversationId = newConversationId, !.entryContext = <<>>,
              !.conversationHistory = <<>>, !.aiResponse = Undefined]

\* the provider branches of lines 162-194: is the adapter invoked at all
HasProviderBranch == ProviderName \in {"openai", "anthropic", "google"}

\* lines 123-194 up to the await of the adapter call: the prompt is built from
\* the question, the context, entryContext and conversationHistory; without a
\* matching branch aiResponse stays undefined and the save comes next
ToAdapter(q) ==
    IF HasProviderBranch
    THEN [q EXCEPT !.pc = "adapter", !.prompted = TRUE,
                   !.adapterCalls = @ + 1]
    ELSE [q EXCEPT !.pc = "persist", !.prompted = TRUE]

\* lines 110-121 up to the await of findOne
ToHistory(q) ==
    IF q.conversationId /= 0 THEN [q EXCEPT !.pc = "history"] ELSE ToAdapter(q)

\* the errors an adapter or the store throws: code and HTTP status, 0 for an
\* error without status
AdapterErrors ==
    {[code |-> c, status |-> st] :
        c \in {"insufficient_quota", "rate_limit_exceeded",
               "context_length_exceeded", "other"},
        st \in {0, 429, 500}}
StoreError == [code |-> "other", status |-> 0]

\* the catch block of askQuestion, lines 238-270
AskErrorStatus(error) ==
    IF error.code = "insufficient_quota" \/ error.status = 429 THEN 503
    ELSE IF error.code = "rate_limit_exceeded" \/ error.status = 429 THEN 429
    ELSE IF error.code = "context_length_exceeded" THEN 400
    ELSE 500

\* AskCatch with the generated text, if any, put into the error response
AskCatchWithText(q, error) ==
    [Fail([q EXCEPT !.error = error], AskErrorStatus(error)) EXCEPT
        !.answer = q.aiResponse]

\* AskCatch calling the adapter once more after its first failure
AskCatchRetrying(q, error) ==
    IF q.pc = "adapter" /\ q.adapterCalls < 2
    THEN [q EXCEPT !.adapterCalls = @ + 1]
    ELSE Fail([q EXCEPT !.error = error], AskErrorStatus(error))

\* the catch block of askQuestion entered with error
AskCatch(q, error) == Fail([q EXCEPT !.error = error], AskErrorStatus(error))

\* the catch blocks of getEntrySuggestions, generateTags and
\* analyzeCulturalSignificance (lines 383-389, 480-486, 603-609)
VariantCatch(q, error) == Fail([q EXCEPT !.error = error], 500)

\* askQuestion, lines 45-74: validation, the service check, and on to the
\* first await
AskQuestionBegin(r) ==
    /\ CanAccept(r)
    /\ \E user \in Users, valid \in BOOLEAN, question \in Questions,
          includeEntries \in BOOLEAN,
          conversationId \in (0..(nextId - 1)) \cup {NoSuchId} :
        LET q == [Idle EXCEPT !.kind = "ask", !.user = user,
                              !.question = question,
                              !.includeEntries = includeEntries,
                              !.conversationId = conversationId]
        IN  req' = [req EXCEPT ![r] =
                IF ~valid THEN Fail([q EXCEPT !.valid = FALSE,
                                               !.errors = FieldErrors("question")], 400)
                ELSE IF aiService = Null THEN Fail(q, 503)
                ELSE IF includeEntries THEN [q EXCEPT !.pc = "entries"]
                ELSE ToHistory(q)]
    /\ served' = served + 1
    /\ UNCHANGED <<envProvider, aiService, entries, conversations, nextId, now>>
    /\ UNCHANGED rest

\* lines 75-108: Entry.find resolves and entryContext is built, or it throws
\* and the error is logged
AskQuestionEntries(r) ==
    /\ req[r].kind = "ask" /\ req[r].pc = "entries"
    /\ \E throws \in BOOLEAN :
        LET q == [req[r] EXCEPT
                    !.storeOps = @ \cup {"Entry.find"},
                    !.entryContext =
                        IF throws THEN <<>>
                        ELSE BuildEntryContext(FindUserEntries(req[r].user))]
        IN  req' = [req EXCEPT ![r] = ToHistory(q)]
    /\ UNCHANGED <<envProvider, aiService, entries, conversations, nextId, now, served>>
    /\ UNCHANGED rest

\* lines 113-121: Conversation.findOne resolves, or it throws into the catch
\* block of the handler
AskQuestionHistory(r) ==
    /\ req[r].kind = "ask" /\ req[r].pc = "history"
    /\ \E throws \in BOOLEAN :
        LET q == [req[r] EXCEPT !.storeOps = @ \cup {"Conversation.findOne"}]
        IN  req' = [req EXCEPT ![r] =
                IF throws THEN AskCatch(q, StoreError)
                ELSE ToAdapter([q EXCEPT
                        !.conversationHistory =
                            ConversationHistory(q.conversationId, q.user),
                        !.seen = MessagesSeen(q.conversationId, q.user)])]
    /\ UNCHANGED <<envProvider, aiService, entries, conversations, nextId, now, served>>
    /\ UNCHANGED rest

\* lines 162-194: the adapter call resolves with a text, or throws
AskQuestionAdapter(r) ==
    /\ req[r].kind = "ask" /\ req[r].pc = "adapter"
    /\ \/ \E text \in Answers :
            req' = [req EXCEPT ![r].aiResponse = text, ![r].pc = "persist"]
       \/ \E error \in AdapterErrors :
            req' = [req EXCEPT ![r] = AskCatch(req[r], error)]
    /\ UNCHANGED <<envProvider, aiService, entries, conversations, nextId, now, served>>
    /\ UNCHANGED rest

\* lines 196-237: the exchange is saved as a new conversation or pushed onto
\* the conversation of the given id, and the response is sent; or the store
\* throws
AskQuestionPersist(r) ==
    /\ req[r].kind = "ask" /\ req[r].pc = "persist"
    /\ LET q == req[r]
           pair == Exchange(q.question, q.aiResponse)
       IN  \/ /\ q.conversationId = 0
               /\ conversations' = (nextId :>
                      NewConversation(q.user, q.question, q.aiResponse, now + 1))
                      @@ conversations
               /\ nextId' = nextId + 1
               /\ now' = now + 1
               /\ req' = [req EXCEPT ![r] =
                      Succeed([q EXCEPT !.storeOps = @ \cup {"Conversation.save"}],
                              nextId)]
           \/ /\ q.conversationId /= 0
               /\ conversations' = FindByIdAndUpdate(q.conversationId, pair, now + 1)
               /\ now' = now + 1
               /\ req' = [req EXCEPT ![r] =
                      Succeed([q EXCEPT !.storeOps = @ \cup
                                  {"Conversation.findByIdAndUpdate"}],
                              q.conversationId)]
               /\ UNCHANGED nextId
           \/ /\ req' = [req EXCEPT ![r] =
                      AskCatch([q EXCEPT !.storeOps = @ \cup
                                    {IF q.conversationId = 0 THEN "Conversation.save"
                                     ELSE "Conversation.findByIdAndUpdate"}],
                               StoreError)]
               /\ UNCHANGED <<conversations, nextId, now>>
    /\ UNCHANGED <<envProvider, aiService, entries, served>>
    /\ UNCHANGED rest

\* ------------------------------------------------- the stateless endpoints
Roles == {"user", "admin"}

\* Entry.findById(id): the positions of the matching entries
FindEntryById(id) == {i \in 1..Len(entries) : entries[i].id = id}

\* the permission check of lines 287-290 and 503-506
CanAccessEntry(entry, user, role) ==
    entry.author = user \/ entry.isPublic \/ role = "admin"

\* the provider branches of getEntrySuggestions, generateTags and
\* analyzeCulturalSignificance: openai and anthropic only
HasVariantBranch == ProviderName \in {"openai", "anthropic"}

\* getEntrySuggestions and analyzeCulturalSignificance up to the await of
\* Entry.findById (lines 274-278, 490-494)
EntryEndpointBegin(r, kind) ==
    /\ CanAccept(r)
    /\ \E user \in Users, role \in Roles, id \in 0..Len(entries) :
        req' = [req EXCEPT ![r] =
            [Idle EXCEPT !.kind = kind, !.pc = "entry", !.user = user,
                         !.role = role, !.entryId = id]]
    /\ served' = served + 1
    /\ UNCHANGED <<envProvider, aiService, entries, conversations, nextId, now>>
    /\ UNCHANGED rest

\* Entry.findById resolves: 404, 403, 503, or on to the adapter (lines 279-304,
\* 495-520); without a matching provider branch the text stays undefined and
\* the response is sent at once; a throw ends in the catch block
EntryEndpointLookup(r, kind) ==
    /\ req[r].kind = kind /\ req[r].pc = "entry"
    /\ \E throws \in BOOLEAN :
        LET q == [req[r] EXCEPT !.storeOps = @ \cup {"Entry.findById"}]
            found == FindEntryById(q.entryId)
            entry == entries[CHOOSE i \in found : TRUE]
        IN  req' = [req EXCEPT ![r] =
                IF throws THEN VariantCatch(q, StoreError)
                ELSE IF found = {} THEN Fail(q, 404)
                ELSE IF ~CanAccessEntry(entry, q.user, q.role) THEN Fail(q, 403)
                ELSE IF aiService = Null THEN Fail(q, 503)
                ELSE IF HasVariantBranch
                     THEN [q EXCEPT !.pc = "adapter", !.prompted = TRUE,
                                    !.adapterCalls = @ + 1]
                     ELSE Succeed(q, 0)]
    /\ UNCHANGED <<envProvider, aiService, entries, conversations, nextId, now, served>>
    /\ UNCHANGED rest

\* EntryEndpointAdapter saving the exchange as askQuestion does
EntryEndpointAdapterSaving(r, kind) ==
    /\ req[r].kind = kind /\ req[r].pc = "adapter"
    /\ \E text \in Answers :
        /\ req' = [req EXCEPT ![r] = Succeed([req[r] EXCEPT !.aiResponse = text], nextId)]
        /\ conversations' = (nextId :> NewConversation(req[r].user, <<>>, text, now + 1))
                                @@ conversations
        /\ nextId' = nextId + 1
        /\ now' = now + 1
    /\ UNCHANGED <<envProvider, aiService, entries, served>>
    /\ UNCHANGED rest

\* the adapter call resolves and the text is returned, or it throws into the
\* catch block (lines 383-389, 603-609)
EntryEndpointAdapter(r, kind) ==
    /\ req[r].kind = kind /\ req[r].pc = "adapter"
    /\ \/ \E text \in Answers :
            req' = [req EXCEPT ![r] = Succeed([req[r] EXCEPT !.aiResponse = text], 0)]
       \/ \E error \in AdapterErrors :
            req' = [req EXCEPT ![r] = VariantCatch(req[r], error)]
    /\ UNCHANGED <<envProvider, aiService, entries, conversations, nextId, now, served>>
    /\ UNCHANGED rest

GetEntrySuggestionsBegin(r) == EntryEndpointBegin(r, "suggest")
GetEntrySuggestionsLookup(r) == EntryEndpointLookup(r, "suggest")
GetEntrySuggestionsAdapter(r) == EntryEndpointAdapter(r, "suggest")

AnalyzeCulturalSignificanceBegin(r) == EntryEndpointBegin(r, "analyze")
AnalyzeCulturalSignificanceLookup(r) == EntryEndpointLookup(r, "analyze")
AnalyzeCulturalSignificanceAdapter(r) == EntryEndpointAdapter(r, "analyze")

\* ------------------------------------------------------------ generateTags
Whitespace == {" ", "\t", "\n"}

\* String.prototype.trim
Trim(s) ==
    LET inked == {i \in 1..Len(s) : s[i] \notin Whitespace}
    IN  IF inked = {} THEN <<>>
        ELSE SubSeq(s, CHOOSE i \in inked : \A j \in inked : i <= j,
                       CHOOSE i \in inked : \A j \in inked : i >= j)

\* String.prototype.split(","): the pieces between the commas, one more than
\* there are commas
Split(s) ==
    LET commas == {i \in 1..Len(s) : s[i] = ","}
        n == Cardinality(commas)
        \* the position of the k-th comma, 0 before the first, Len + 1 after the last
        at(k) == IF k = 0 THEN 0
                 ELSE IF k = n + 1 THEN Len(s) + 1
                 ELSE CHOOSE i \in commas : Cardinality({j \in commas : j <= i}) = k
    IN  [k \in 1..(n + 1) |-> SubSeq(s, at(k - 1) + 1, at(k) - 1)]

\* ParseTags with tags of exactly 50 characters let through
ParseTagsUpToLimit(tagsText) ==
    LET pieces == Split(tagsText)
        trimmed == [k \in 1..Len(pieces) |-> Trim(pieces[k])]
        kept == SelectSeq(trimmed, LAMBDA tag : Len(tag) > 0 /\ Len(tag) <= TagLengthLimit)
    IN  SliceFirst(kept, TagLimit)

\* lines 466-470: split, trim, filter, slice
ParseTags(tagsText) ==
    LET pieces == Split(tagsText)
        trimmed == [k \in 1..Len(pieces) |-> Trim(pieces[k])]
        kept == SelectSeq(trimmed, LAMBDA tag : Len(tag) > 0 /\ Len(tag) < TagLengthLimit)
    IN  SliceFirst(kept, TagLimit)

\* GenerateTagsBegin with the service check ahead of the validation
GenerateTagsBeginServiceFirst(r) ==
    /\ CanAccept(r)
    /\ \E user \in Users, valid \in BOOLEAN :
        LET q == [Idle EXCEPT !.kind = "tags", !.user = user]
        IN  req' = [req EXCEPT ![r] =
                IF aiService = Null THEN Fail([q EXCEPT !.valid = valid], 503)
                ELSE IF ~valid THEN Fail([q EXCEPT !.valid = FALSE,
                                               !.errors = FieldErrors("title")], 400)
                ELSE [q EXCEPT !.pc = "adapter", !.prompted = TRUE,
                               !.adapterCalls = @ + 1]]
    /\ served' = served + 1
    /\ UNCHANGED <<envProvider, aiService, entries, conversations, nextId, now>>
    /\ UNCHANGED rest

\* generateTags, lines 393-412 and on to the await of the adapter call; without
\* a matching provider branch tagsText is undefined and split throws
GenerateTagsBegin(r) ==
    /\ CanAccept(r)
    /\ \E user \in Users, valid \in BOOLEAN :
        LET q == [Idle EXCEPT !.kind = "tags", !.user = user]
        IN  req' = [req EXCEPT ![r] =
                IF ~valid THEN Fail([q EXCEPT !.valid = FALSE,
                                               !.errors = FieldErrors("title")], 400)
                ELSE IF aiService = Null THEN Fail(q, 503)
                ELSE IF HasVariantBranch
                     THEN [q EXCEPT !.pc = "adapter", !.prompted = TRUE,
                                    !.adapterCalls = @ + 1]
                     ELSE VariantCatch(q, StoreError)]
    /\ served' = served + 1
    /\ UNCHANGED <<envProvider, aiService, entries, conversations, nextId, now>>
    /\ UNCHANGED rest

\* lines 436-479: the adapter resolves with one of texts and the tags are
\* parsed from it, or it throws
GenerateTagsAdapter(r, texts) ==
    /\ req[r].kind = "tags" /\ req[r].pc = "adapter"
    /\ \/ \E tagsText \in texts :
            LET tags == ParseTags(tagsText)
            IN  req' = [req EXCEPT ![r] =
                    [Succeed(req[r], 0) EXCEPT !.aiResponse = tagsText,
                                               !.tags = tags, !.count = Len(tags)]]
       \/ \E error \in AdapterErrors :
            req' = [req EXCEPT ![r] = VariantCatch(req[r], error)]
    /\ UNCHANGED <<envProvider, aiService, entries, conversations, nextId, now, served>>
    /\ UNCHANGED rest

\* the texts an adapter returns for a tag request: piece i of a text is one of
\* these kinds
TagPiece(kind, i) ==
    LET word == <<"t", Digit[(i \div 10) + 1], Digit[(i % 10) + 1]>>
    IN  CASE kind = 0 -> word
          [] kind = 1 -> <<" ">> \o word \o <<" ", "\n">>
          [] kind = 2 -> <<>>
          [] kind = 3 -> <<" ", "\t">>
          [] kind = 4 -> word \o Repeat("x", TagLengthLimit - 1 - Len(word))
          [] kind = 5 -> word \o Repeat("y", TagLengthLimit - Len(word))
          [] kind = 6 -> <<" ">> \o word \o Repeat("z", TagLengthLimit - 1 - Len(word)) \o <<" ">>
          [] OTHER -> word \o <<" ">> \o word

TagPieceKinds == 0..7

RECURSIVE Join(_)
Join(pieces) ==
    IF Len(pieces) = 0 THEN <<>>
    ELSE IF Len(pieces) = 1 THEN pieces[1]
    ELSE pieces[1] \o <<",">> \o Join(Tail(pieces))

\* n pieces of the kind base, the piece at position at of the kind odd
TagText(n, base, odd, at) ==
    Join([i \in 1..n |-> TagPiece(IF i = at THEN odd ELSE base, i)])

TagTexts ==
    {TagText(n, b, o, j) : n \in 0..MaxTokens, b \in TagPieceKinds,
                           o \in TagPieceKinds, j \in {1, 2}}

SomeTagTexts == {TagText(3, 0, o, 2) : o \in {2, 5}}

\* ------------------------------------------- conversation and status routes
DefaultLimit == 20
LastMessageBudget == 100

\* the values of req.query.page and req.query.limit after parseInt
Pages == {1, 2}
Limits == {1, DefaultLimit}

\* sort({updatedAt: -1}) over the documents of the given ids
RECURSIVE SortByUpdatedAtDesc(_)
SortByUpdatedAtDesc(ids) ==
    IF ids = {} THEN <<>>
    ELSE LET first == CHOOSE c \in ids : \A d \in ids :
                          \/ conversations[c].updatedAt > conversations[d].updatedAt
                          \/ /\ conversations[c].updatedAt = conversations[d].updatedAt
                             /\ c <= d
         IN  <<first>> \o SortByUpdatedAtDesc(ids \ {first})

\* FindConversations without the userId condition
FindConversationsOfAll(userId, skip, limit) ==
    LET sorted == SortByUpdatedAtDesc(DOMAIN conversations)
    IN  SubSeq(sorted, skip + 1, Min(skip + limit, Len(sorted)))

\* Conversation.find({userId}).sort({updatedAt: -1}).skip(skip).limit(limit):
\* the ids of the documents returned, in order
FindConversations(userId, skip, limit) ==
    LET own == {c \in DOMAIN conversations : conversations[c].userId = userId}
        sorted == SortByUpdatedAtDesc(own)
    IN  SubSeq(sorted, skip + 1, Min(skip + limit, Len(sorted)))

\* Conversation.countDocuments({userId})
CountDocuments(userId) ==
    Cardinality({c \in DOMAIN conversations : conversations[c].userId = userId})

\* lines 630-637: a listed conversation with messageCount and lastMessage
WithCount(c) ==
    LET conv == conversations[c]
        n == Len(conv.messages)
    IN  [id |-> c, title |-> conv.title, updatedAt |-> conv.updatedAt,
         messages |-> conv.messages, messageCount |-> n,
         lastMessage |-> IF n = 0 THEN <<>>
                         ELSE Substring(conv.messages[n].content, 0, LastMessageBudget)]

\* getConversations, lines 612-623, up to the await of find
GetConversationsBegin(r) ==
    /\ CanAccept(r)
    /\ \E user \in Users, page \in Pages, limit \in Limits :
        req' = [req EXCEPT ![r] =
            [Idle EXCEPT !.kind = "list", !.pc = "find", !.user = user,
                         !.page = page, !.limit = limit]]
    /\ served' = served + 1
    /\ UNCHANGED <<envProvider, aiService, entries, conversations, nextId, now>>
    /\ UNCHANGED rest

\* find resolves with the page of the user's conversations, or throws
GetConversationsFind(r) ==
    /\ req[r].kind = "list" /\ req[r].pc = "find"
    /\ \E throws \in BOOLEAN :
        LET q == [req[r] EXCEPT !.storeOps = @ \cup {"Conversation.find"}]
            skip == (q.page - 1) * q.limit
            found == FindConversations(q.user, skip, q.limit)
        IN  req' = [req EXCEPT ![r] =
                IF throws THEN Fail([q EXCEPT !.error = StoreError], 500)
                ELSE [q EXCEPT !.pc = "count",
                               !.listed = [i \in 1..Len(found) |-> WithCount(found[i])]]]
    /\ UNCHANGED <<envProvider, aiService, entries, conversations, nextId, now, served>>
    /\ UNCHANGED rest

\* countDocuments resolves and the page is sent (lines 625-651), or it throws
GetConversationsCount(r) ==
    /\ req[r].kind = "list" /\ req[r].pc = "count"
    /\ \E throws \in BOOLEAN :
        LET q == [req[r] EXCEPT !.storeOps = @ \cup {"Conversation.countDocuments"}]
            total == CountDocuments(q.user)
        IN  req' = [req EXCEPT ![r] =
                IF throws
                THEN Fail([q EXCEPT !.error = StoreError, !.listed = <<>>], 500)
                ELSE [q EXCEPT !.pc = "done", !.status = 200, !.total = total,
                               !.totalPages = (total + q.limit - 1) \div q.limit]]
    /\ UNCHANGED <<envProvider, aiService, entries, conversations, nextId, now, served>>
    /\ UNCHANGED rest

\* getConversationById, lines 663-669, up to the await of findOne
GetConversationByIdBegin(r) ==
    /\ CanAccept(r)
    /\ \E user \in Users, id \in (1..(nextId - 1)) \cup {NoSuchId} :
        req' = [req EXCEPT ![r] =
            [Idle EXCEPT !.kind = "read", !.pc = "find", !.user = user,
                         !.conversationId = id]]
    /\ served' = served + 1
    /\ UNCHANGED <<envProvider, aiService, entries, conversations, nextId, now>>
    /\ UNCHANGED rest

\* findOne resolves: 404 or the document (lines 671-681); or it throws
GetConversationByIdFind(r) ==
    /\ req[r].kind = "read" /\ req[r].pc = "find"
    /\ \E throws \in BOOLEAN :
        LET q == [req[r] EXCEPT !.storeOps = @ \cup {"Conversation.findOne"}]
            found == FindOneConversation(q.conversationId, q.user)
        IN  req' = [req EXCEPT ![r] =
                IF throws THEN Fail([q EXCEPT !.error = StoreError], 500)
                ELSE IF found = {} THEN Fail(q, 404)
                ELSE [q EXCEPT !.pc = "done", !.status = 200,
                               !.returned = <<conversations[q.conversationId]>>]]
    /\ UNCHANGED <<envProvider, aiService, entries, conversations, nextId, now, served>>
    /\ UNCHANGED rest

\* FindOneAndDelete with the admin role deleting any conversation
FindOneAndDeleteAsAdmin(id, userId, role) ==
    [c \in DOMAIN conversations \
            (IF role = "admin" THEN {id} ELSE FindOneConversation(id, userId))
        |-> conversations[c]]

\* Conversation.findOneAndDelete({_id, userId}): the collection afterwards;
\* role is req.user.role, which the handler never reads
FindOneAndDelete(id, userId, role) ==
    [c \in DOMAIN conversations \ FindOneConversation(id, userId)
        |-> conversations[c]]

\* deleteConversation, lines 693-699, up to the await of findOneAndDelete
DeleteConversationBegin(r) ==
    /\ CanAccept(r)
    /\ \E user \in Users, role \in Roles,
          id \in (1..(nextId - 1)) \cup {NoSuchId} :
        req' = [req EXCEPT ![r] =
            [Idle EXCEPT !.kind = "delete", !.pc = "find", !.user = user,
                         !.role = role, !.conversationId = id]]
    /\ served' = served + 1
    /\ UNCHANGED <<envProvider, aiService, entries, conversations, nextId, now>>
    /\ UNCHANGED rest

\* findOneAndDelete resolves: 404 when it matched nothing, success when it
\* removed the document (lines 701-711); or it throws
DeleteConversationFind(r) ==
    /\ req[r].kind = "delete" /\ req[r].pc = "find"
    /\ LET q == [req[r] EXCEPT !.storeOps = @ \cup {"Conversation.findOneAndDelete"}]
           after == FindOneAndDelete(q.conversationId, q.user, q.role)
       IN  \/ /\ req' = [req EXCEPT ![r] = Fail([q EXCEPT !.error = StoreError], 500)]
              /\ UNCHANGED conversations
           \/ /\ conversations' = after
              /\ req' = [req EXCEPT ![r] =
                    IF DOMAIN after = DOMAIN conversations THEN Fail(q, 404)
                    ELSE [q EXCEPT !.pc = "done", !.status = 200]]
    /\ UNCHANGED <<envProvider, aiService, entries, nextId, now, served>>
    /\ UNCHANGED rest

\* getServiceStatus, lines 723-746
GetServiceStatus(r) ==
    /\ CanAccept(r)
    /\ LET isAvailable == aiService /= Null
       IN  req' = [req EXCEPT ![r] =
               [Idle EXCEPT !.kind = "status", !.pc = "done", !.status = 200,
                            !.available = isAvailable,
                            !.provider = IF envProvider = "" THEN "none"
                                         ELSE envProvider,
                            !.features = [f \in FeatureNames |-> isAvailable]]]
    /\ served' = served + 1
    /\ UNCHANGED <<envProvider, aiService, entries, conversations, nextId, now>>
    /\ UNCHANGED rest

\* -------------------------------------------------------------- behaviours
\* values of AI_PROVIDER: not set, a provider, a provider in other case, an
\* unsupported name
EnvProviders == {"", "google", "OpenAI", "none"}

SeedStores ==
    {<<>>} \cup
    {(1 :> [userId |-> "u1", title |-> SeedQuestion(1),
            messages |-> SeedMessages(k), updatedAt |-> 0]) : k \in 1..MaxSeed}

Init ==
    /\ envProvider \in EnvProviders
    /\ \E sdkLoads \in BOOLEAN : aiService = initializeAIService(envProvider, sdkLoads)
    /\ entries = EntryCollection(2, 7, 6, 2)
    /\ conversations \in SeedStores
    /\ nextId = IF conversations = <<>> THEN 1 ELSE 2
    /\ now = 0
    /\ served = 0
    /\ req = [r \in {1} |-> Idle]
    /\ RestAtStart

Next ==
    \E r \in Slots :
        \/ AskQuestionBegin(r)
        \/ AskQuestionEntries(r)
        \/ AskQuestionHistory(r)
        \/ AskQuestionAdapter(r)
        \/ AskQuestionPersist(r)
        \/ GetEntrySuggestionsBegin(r)
        \/ GetEntrySuggestionsLookup(r)
        \/ GetEntrySuggestionsAdapter(r)
        \/ AnalyzeCulturalSignificanceBegin(r)
        \/ AnalyzeCulturalSignificanceLookup(r)
        \/ AnalyzeCulturalSignificanceAdapter(r)
        \/ GenerateTagsBegin(r)
        \/ GenerateTagsAdapter(r, SomeTagTexts)
        \/ GetConversationsBegin(r)
        \/ GetConversationsFind(r)
        \/ GetConversationsCount(r)
        \/ GetConversationByIdBegin(r)
        \/ GetConversationByIdFind(r)
        \/ DeleteConversationBegin(r)
        \/ DeleteConversationFind(r)
        \/ GetServiceStatus(r)

Spec == Init /\ [][Next]_vars

\* context assembly: the last request of a process, over the Entry collections
InitContext ==
    /\ envProvider = ""
    /\ aiService = initializeAIService(envProvider, TRUE)
    /\ entries \in EntryCollections(MaxEntries)
    /\ conversations = <<>>
    /\ nextId = 1
    /\ now = 0
    /\ served = MaxRequests - 1
    /\ req = [r \in {1} |-> Idle]
    /\ RestAtStart

NextContext ==
    \E r \in Slots :
        \/ AskQuestionBegin(r)
        \/ AskQuestionEntries(r)
        \/ AskQuestionHistory(r)
        \/ AskQuestionAdapter(r)
        \/ AskQuestionPersist(r)

SpecContext == InitContext /\ [][NextContext]_vars

\* one askQuestion request run to its end: every await of the handler
\* resolves or throws in the end
InitLive ==
    /\ envProvider \in EnvProviders
    /\ \E sdkLoads \in BOOLEAN : aiService = initializeAIService(envProvider, sdkLoads)
    /\ entries = EntryCollection(2, 7, 6, 2)
    /\ conversations \in SeedStores
    /\ nextId = IF conversations = <<>> THEN 1 ELSE 2
    /\ now = 0
    /\ served = MaxRequests - 1
    /\ req = [r \in {1} |-> Idle]
    /\ RestAtStart

\* the awaits of askQuestion settle
AskQuestionSettles ==
    \E r \in Slots :
        \/ AskQuestionEntries(r)
        \/ AskQuestionHistory(r)
        \/ AskQuestionAdapter(r)
        \/ AskQuestionPersist(r)

SpecLive == InitLive /\ [][NextContext]_vars /\ WF_vars(AskQuestionSettles)

\* tag generation: the last request of a process, over the texts of the adapter
InitTags ==
    /\ envProvider \in {"openai", "anthropic"}
    /\ aiService = initializeAIService(envProvider, TRUE)
    /\ entries = <<>>
    /\ conversations = <<>>
    /\ nextId = 1
    /\ now = 0
    /\ served = MaxRequests - 1
    /\ req = [r \in {1} |-> Idle]
    /\ RestAtStart

NextTags ==
    \E r \in Slots :
        \/ GenerateTagsBegin(r)
        \/ GenerateTagsAdapter(r, TagTexts)

SpecTags == InitTags /\ [][NextTags]_vars

\* two connections continuing the conversations of a store, the requests
\* running concurrently
InitRace ==
    /\ envProvider = ""
    /\ aiService = initializeAIService(envProvider, TRUE)
    /\ entries = <<>>
    /\ conversations \in SeedStores \ {<<>>}
    /\ nextId = 2
    /\ now = 0
    /\ served = MaxRequests - 2
    /\ req = [r \in {1, 2} |-> Idle]
    /\ RestAtStart

NextRace ==
    \E r \in Slots :
        \/ AskQuestionBegin(r)
        \/ AskQuestionEntries(r)
        \/ AskQuestionHistory(r)
        \/ AskQuestionAdapter(r)
        \/ AskQuestionPersist(r)

SpecRace == InitRace /\ [][NextRace]_vars

\* ------------------------------------------------ EntryController: listing
\* the page size getAllEntries uses when the query gives none
DefaultEntryLimit == 12

NoValue == "none"

\* a document of the Entry collection as EntryController reads and writes it
EntryDoc(id, author, isPublic, status, category, featured, tags) ==
    [id |-> id, author |-> author, isPublic |-> isPublic, status |-> status,
     category |-> category, featured |-> featured, featuredAt |-> 0,
     tags |-> tags, likes |-> <<>>, version |-> 0, createdAt |-> id,
     publishedAt |-> 0, updatedAt |-> 0]

EntryStatuses == {"published", "draft", "archived"}

\* one entry of every author, visibility and status
AllKindsOfEntries ==
    LET authorOf(i) == IF i % 2 = 1 THEN "u1" ELSE "u2"
        publicOf(i) == ((i - 1) \div 2) % 2 = 0
        statusOf(i) == CASE (i - 1) \div 4 = 0 -> "published"
                         [] (i - 1) \div 4 = 1 -> "draft"
                         [] OTHER -> "archived"
    IN  [i \in 1..12 |->
            EntryDoc(i, authorOf(i), publicOf(i), statusOf(i),
                     IF i % 3 = 0 THEN "Art" ELSE "Music",
                     i % 5 = 0, IF i % 4 = 0 THEN {"t"} ELSE {})]

\* req.user of the requests: nobody, a user, an admin
Requesters ==
    {[userId |-> NoValue, role |-> NoValue]} \cup
    {[userId |-> u, role |-> "user"] : u \in Users} \cup
    {[userId |-> "u1", role |-> "admin"]}

\* req.query of getAllEntries; "" is a parameter that is not given
EntryQueries ==
    [page : {1, 2}, sortOrder : {"desc", "asc"}, authorId : {""} \cup Users,
     status : {"", "draft", "published"}, category : {"", "all", "Art"},
     featured : {"", "true"}, tags : {"", "t"}]

\* filter[key] = value
SetKey(filter, key, value) == (key :> value) @@ filter

\* BuildFilter with the author condition taken from the query as it is
BuildFilterTrustingAuthorId(user, query) ==
    LET f1 == IF user.role /= "admin" /\ query.authorId = ""
              THEN SetKey(SetKey(<<>>, "isPublic", TRUE), "status", "published")
              ELSE IF user.role /= "admin"
              THEN SetKey(<<>>, "author", query.authorId)
              ELSE <<>>
    IN  IF query.status /= "" /\ user.role = "admin"
        THEN SetKey(f1, "status", query.status)
        ELSE f1

\* lines 143-217: the filter object built from req.user and req.query (the
\* conditions on country, region, search, views and dates are further keys of
\* the same conjunction)
BuildFilter(user, query) ==
    LET authorId == query.authorId
        f1 == IF user.role /= "admin"
              THEN IF authorId /= "" /\ authorId = user.userId
                   THEN SetKey(<<>>, "author", authorId)
                   ELSE SetKey(SetKey(<<>>, "isPublic", TRUE), "status", "published")
              ELSE <<>>
        f2 == IF query.status /= "" /\ user.role = "admin"
              THEN SetKey(f1, "status", query.status)
              ELSE IF authorId = "" THEN SetKey(f1, "status", "published")
              ELSE f1
        f3 == IF query.category /= "" /\ query.category /= "all"
              THEN SetKey(f2, "category", query.category)
              ELSE f2
        f4 == IF query.tags /= "" THEN SetKey(f3, "tags", {query.tags}) ELSE f3
        f5 == IF authorId /= "" /\ authorId /= user.userId /\ user.role /= "admin"
              THEN SetKey(SetKey(f4, "author", authorId), "isPublic", TRUE)
              ELSE f4
    IN  IF query.featured = "true" THEN SetKey(f5, "featured", TRUE) ELSE f5

\* does the document satisfy the filter: every key holds, tags as $in
Matches(entry, filter) ==
    \A key \in DOMAIN filter :
        IF key = "tags" THEN entry.tags \cap filter[key] /= {}
        ELSE entry[key] = filter[key]

\* the positions of the documents that match, sorted by createdAt
RECURSIVE SortByCreatedAt(_, _)
SortByCreatedAt(positions, sortOrder) ==
    IF positions = {} THEN <<>>
    ELSE LET first == CHOOSE i \in positions : \A j \in positions :
                        IF sortOrder = "desc"
                        THEN entries[i].createdAt >= entries[j].createdAt
                        ELSE entries[i].createdAt <= entries[j].createdAt
         IN  <<first>> \o SortByCreatedAt(positions \ {first}, sortOrder)

\* Entry.find(filter).sort(sortOptions).skip(skip).limit(limit)
FindEntries(filter, sortOrder, skip, limit) ==
    LET sorted == SortByCreatedAt({i \in 1..Len(entries) :
                                        Matches(entries[i], filter)}, sortOrder)
        page == SubSeq(sorted, skip + 1, Min(skip + limit, Len(sorted)))
    IN  [k \in 1..Len(page) |-> entries[page[k]]]

\* a connection of EntryController with no request yet
EntryIdle ==
    [pc |-> "idle", kind |-> "none", user |-> [userId |-> NoValue, role |-> NoValue],
     query |-> <<>>, filter |-> <<>>, listed |-> <<>>, totalEntries |-> 0,
     categories |-> {}, status |-> 0, entryId |-> 0, body |-> <<>>,
     doc |-> <<>>, action |-> NoValue, likesCount |-> 0, hasLiked |-> FALSE]

\* getAllEntries, lines 122-224, up to the await of find
GetAllEntriesBegin(r) ==
    /\ CanAccept(r)
    /\ \E user \in Requesters, query \in EntryQueries :
        req' = [req EXCEPT ![r] =
            [EntryIdle EXCEPT !.kind = "getAllEntries", !.pc = "find",
                              !.user = user, !.query = query,
                              !.filter = BuildFilter(user, query)]]
    /\ served' = served + 1
    /\ UNCHANGED <<envProvider, aiService, entries, conversations, nextId, now>>
    /\ UNCHANGED rest

\* find resolves (lines 224-229), or throws into the catch block
GetAllEntriesFind(r) ==
    /\ req[r].kind = "getAllEntries" /\ req[r].pc = "find"
    /\ \E throws \in BOOLEAN :
        LET q == req[r]
            skip == (q.query.page - 1) * DefaultEntryLimit
        IN  req' = [req EXCEPT ![r] =
                IF throws THEN [q EXCEPT !.pc = "done", !.status = 500]
                ELSE [q EXCEPT !.pc = "count",
                               !.listed = FindEntries(q.filter, q.query.sortOrder,
                                                      skip, DefaultEntryLimit)]]
    /\ UNCHANGED <<envProvider, aiService, entries, conversations, nextId, now, served>>
    /\ UNCHANGED rest

\* countDocuments resolves (lines 232-233), or throws
GetAllEntriesCount(r) ==
    /\ req[r].kind = "getAllEntries" /\ req[r].pc = "count"
    /\ \E throws \in BOOLEAN :
        LET q == req[r]
        IN  req' = [req EXCEPT ![r] =
                IF throws THEN [q EXCEPT !.pc = "done", !.status = 500, !.listed = <<>>]
                ELSE [q EXCEPT !.pc = "distinct",
                               !.totalEntries = Cardinality({i \in 1..Len(entries) :
                                                    Matches(entries[i], q.filter)})]]
    /\ UNCHANGED <<envProvider, aiService, entries, conversations, nextId, now, served>>
    /\ UNCHANGED rest

\* distinct resolves and the page is sent (lines 236-262), or it throws
GetAllEntriesDistinct(r) ==
    /\ req[r].kind = "getAllEntries" /\ req[r].pc = "distinct"
    /\ \E throws \in BOOLEAN :
        LET q == req[r]
        IN  req' = [req EXCEPT ![r] =
                IF throws THEN [q EXCEPT !.pc = "done", !.status = 500, !.listed = <<>>,
                                         !.totalEntries = 0]
                ELSE [q EXCEPT !.pc = "done", !.status = 200,
                               !.categories = {entries[i].category :
                                    i \in {j \in 1..Len(entries) :
                                                Matches(entries[j], q.filter)}}]]
    /\ UNCHANGED <<envProvider, aiService, entries, conversations, nextId, now, served>>
    /\ UNCHANGED rest

\* listing: the last request of a process, over every kind of entry
InitVisibility ==
    /\ envProvider = ""
    /\ aiService = Null
    /\ entries = AllKindsOfEntries
    /\ conversations = <<>>
    /\ nextId = 1
    /\ now = 0
    /\ served = MaxRequests - 1
    /\ req = [r \in {1} |-> EntryIdle]
    /\ RestAtStart

NextVisibility ==
    \E r \in Slots :
        \/ GetAllEntriesBegin(r)
        \/ GetAllEntriesFind(r)
        \/ GetAllEntriesCount(r)
        \/ GetAllEntriesDistinct(r)

SpecVisibility == InitVisibility /\ [][NextVisibility]_vars

\* ---------------------------------------------- EntryController: mutations
\* the signed-in requesters
SignedIn == {u \in Requesters : u.userId /= NoValue}

ValidCategories == {"Art", "Music", "Other"}

\* an id no entry has
NoSuchEntry == 0

\* Entry.findById(id): the positions of the matching documents
FindById(id) == {i \in 1..Len(entries) : entries[i].id = id}

\* req.body of updateEntry: the fields given
UpdateBodies ==
    {<<>>, SetKey(<<>>, "status", "published"), SetKey(<<>>, "isPublic", FALSE),
     SetKey(<<>>, "featured", TRUE), SetKey(<<>>, "featured", FALSE),
     SetKey(<<>>, "author", "u2"), SetKey(<<>>, "likes", <<"u2">>)}

\* lines 413-418: the fields of the body that are dropped, and updatedAt
CleanUpdateData(body, time) ==
    LET kept == DOMAIN body \ {"author", "views", "likes", "comments"}
    IN  SetKey([k \in kept |-> body[k]], "updatedAt", time)

\* the stored document with the fields of data set ($set)
SetFields(entry, data) ==
    [k \in DOMAIN entry |-> IF k \in DOMAIN data THEN data[k] ELSE entry[k]]

\* the collection with the document at position i replaced
StoreAt(i, entry) == [entries EXCEPT ![i] = entry]

\* res.status(code).json(...) of EntryController
EntryRespond(q, code) == [q EXCEPT !.pc = "done", !.status = code, !.doc = <<>>]

\* createEntry, lines 7-100, up to the await of save
CreateEntryBegin(r) ==
    /\ CanAccept(r)
    /\ \E user \in SignedIn, valid \in BOOLEAN, isPublic \in BOOLEAN,
          status \in {"", "published"}, category \in {"", "Art", "Bogus"} :
        LET q == [EntryIdle EXCEPT !.kind = "createEntry", !.user = user]
        IN  req' = [req EXCEPT ![r] =
                IF ~valid THEN EntryRespond(q, 400)
                ELSE IF category /= "" /\ category \notin ValidCategories
                THEN EntryRespond(q, 400)
                ELSE [q EXCEPT !.pc = "save",
                               !.doc = EntryDoc(Len(entries) + 1, user.userId, isPublic,
                                            IF status = "" THEN "draft" ELSE status,
                                            IF category = "" THEN "Other" ELSE category,
                                            FALSE, {})]]
    /\ served' = served + 1
    /\ UNCHANGED <<envProvider, aiService, entries, conversations, nextId, now>>
    /\ UNCHANGED rest

\* newEntry.save() resolves (line 102), or throws
CreateEntrySave(r) ==
    /\ req[r].kind = "createEntry" /\ req[r].pc = "save"
    /\ \/ /\ entries' = Append(entries, [req[r].doc EXCEPT !.id = Len(entries) + 1,
                                                           !.createdAt = now + 1,
                                                           !.updatedAt = now + 1])
          /\ now' = now + 1
          /\ req' = [req EXCEPT ![r].pc = "populate", ![r].entryId = Len(entries) + 1]
       \/ /\ req' = [req EXCEPT ![r] = EntryRespond(req[r], 500)]
          /\ UNCHANGED <<entries, now>>
    /\ UNCHANGED <<envProvider, aiService, conversations, nextId, served>>
    /\ UNCHANGED rest

\* populate resolves and 201 is sent (lines 103-109), or it throws
CreateEntryPopulate(r) ==
    /\ req[r].kind = "createEntry" /\ req[r].pc = "populate"
    /\ \E throws \in BOOLEAN :
        req' = [req EXCEPT ![r] = EntryRespond(req[r], IF throws THEN 500 ELSE 201)]
    /\ UNCHANGED <<envProvider, aiService, entries, conversations, nextId, now, served>>
    /\ UNCHANGED rest

\* updateEntry, lines 346-361, up to the await of findById
UpdateEntryBegin(r) ==
    /\ CanAccept(r)
    /\ \E user \in SignedIn, valid \in BOOLEAN, body \in UpdateBodies,
          id \in (1..Len(entries)) \cup {NoSuchEntry} :
        LET q == [EntryIdle EXCEPT !.kind = "updateEntry", !.user = user,
                                   !.entryId = id, !.body = body]
        IN  req' = [req EXCEPT ![r] =
                IF ~valid THEN EntryRespond(q, 400) ELSE [q EXCEPT !.pc = "find"]]
    /\ served' = served + 1
    /\ UNCHANGED <<envProvider, aiService, entries, conversations, nextId, now>>
    /\ UNCHANGED rest

\* findById resolves: 404, 403, or on to the update (lines 361-421); or throws
UpdateEntryFind(r) ==
    /\ req[r].kind = "updateEntry" /\ req[r].pc = "find"
    /\ \E throws \in BOOLEAN :
        LET q == req[r]
            found == FindById(q.entryId)
            entry == entries[CHOOSE i \in found : TRUE]
            canEdit == entry.author = q.user.userId \/ q.user.role = "admin"
        IN  req' = [req EXCEPT ![r] =
                IF throws THEN EntryRespond(q, 500)
                ELSE IF found = {} THEN EntryRespond(q, 404)
                ELSE IF ~canEdit THEN EntryRespond(q, 403)
                ELSE [q EXCEPT !.pc = "update"]]
    /\ UNCHANGED <<envProvider, aiService, entries, conversations, nextId, now, served>>
    /\ UNCHANGED rest

\* Entry.findByIdAndUpdate(id, updateData) resolves and the entry is sent
\* (lines 420-429), or it throws
UpdateEntryUpdate(r) ==
    /\ req[r].kind = "updateEntry" /\ req[r].pc = "update"
    /\ \/ /\ entries' = [i \in 1..Len(entries) |->
                IF entries[i].id = req[r].entryId
                THEN SetFields(entries[i], CleanUpdateData(req[r].body, now + 1))
                ELSE entries[i]]
          /\ now' = now + 1
          /\ req' = [req EXCEPT ![r] = EntryRespond(req[r], 200)]
       \/ /\ req' = [req EXCEPT ![r] = EntryRespond(req[r], 500)]
          /\ UNCHANGED <<entries, now>>
    /\ UNCHANGED <<envProvider, aiService, conversations, nextId, served>>
    /\ UNCHANGED rest

\* togglePublishStatus, lines 549-562, up to the await of findById
TogglePublishStatusBegin(r) ==
    /\ CanAccept(r)
    /\ \E user \in SignedIn, status \in EntryStatuses \cup {"bogus"},
          id \in (1..Len(entries)) \cup {NoSuchEntry} :
        LET q == [EntryIdle EXCEPT !.kind = "togglePublishStatus", !.user = user,
                                   !.entryId = id,
                                   !.body = SetKey(<<>>, "status", status)]
        IN  req' = [req EXCEPT ![r] =
                IF status \notin EntryStatuses THEN EntryRespond(q, 400)
                ELSE [q EXCEPT !.pc = "find"]]
    /\ served' = served + 1
    /\ UNCHANGED <<envProvider, aiService, entries, conversations, nextId, now>>
    /\ UNCHANGED rest

\* findById resolves: 404, 403, or the document is changed and save is awaited
\* (lines 562-587); or it throws
TogglePublishStatusFind(r) ==
    /\ req[r].kind = "togglePublishStatus" /\ req[r].pc = "find"
    /\ \E throws \in BOOLEAN :
        LET q == req[r]
            found == FindById(q.entryId)
            entry == entries[CHOOSE i \in found : TRUE]
            canEdit == entry.author = q.user.userId \/ q.user.role = "admin"
            status == q.body["status"]
        IN  req' = [req EXCEPT ![r] =
                IF throws THEN EntryRespond(q, 500)
                ELSE IF found = {} THEN EntryRespond(q, 404)
                ELSE IF ~canEdit THEN EntryRespond(q, 403)
                ELSE [q EXCEPT !.pc = "save",
                        !.doc = [entry EXCEPT
                            !.status = status,
                            !.publishedAt = IF status = "published" /\ @ = 0
                                            THEN now + 1 ELSE @,
                            !.updatedAt = now + 1]]]
    /\ UNCHANGED <<envProvider, aiService, entries, conversations, nextId, now, served>>
    /\ UNCHANGED rest

\* entry.save() writes the changed paths and the entry is sent (lines 587-594),
\* or it throws
TogglePublishStatusSave(r) ==
    /\ req[r].kind = "togglePublishStatus" /\ req[r].pc = "save"
    /\ \/ /\ entries' = StoreAt(req[r].entryId,
                [entries[req[r].entryId] EXCEPT
                    !.status = req[r].doc.status,
                    !.publishedAt = req[r].doc.publishedAt,
                    !.updatedAt = req[r].doc.updatedAt])
          /\ now' = now + 1
          /\ req' = [req EXCEPT ![r] = EntryRespond(req[r], 200)]
       \/ /\ req' = [req EXCEPT ![r] = EntryRespond(req[r], 500)]
          /\ UNCHANGED <<entries, now>>
    /\ UNCHANGED <<envProvider, aiService, conversations, nextId, served>>
    /\ UNCHANGED rest

\* toggleFeatured, lines 907-919, up to the await of findById
ToggleFeaturedBegin(r) ==
    /\ CanAccept(r)
    /\ \E user \in SignedIn, featured \in BOOLEAN,
          id \in (1..Len(entries)) \cup {NoSuchEntry} :
        LET q == [EntryIdle EXCEPT !.kind = "toggleFeatured", !.user = user,
                                   !.entryId = id,
                                   !.body = SetKey(<<>>, "featured", featured)]
        IN  req' = [req EXCEPT ![r] =
                IF user.role /= "admin" THEN EntryRespond(q, 403)
                ELSE [q EXCEPT !.pc = "find"]]
    /\ served' = served + 1
    /\ UNCHANGED <<envProvider, aiService, entries, conversations, nextId, now>>
    /\ UNCHANGED rest

\* findById resolves: 404, or the document is changed and save is awaited
\* (lines 919-932); or it throws
ToggleFeaturedFind(r) ==
    /\ req[r].kind = "toggleFeatured" /\ req[r].pc = "find"
    /\ \E throws \in BOOLEAN :
        LET q == req[r]
            found == FindById(q.entryId)
            entry == entries[CHOOSE i \in found : TRUE]
            featured == q.body["featured"]
        IN  req' = [req EXCEPT ![r] =
                IF throws THEN EntryRespond(q, 500)
                ELSE IF found = {} THEN EntryRespond(q, 404)
                ELSE [q EXCEPT !.pc = "save",
                        !.doc = [entry EXCEPT
                            !.featured = featured,
                            !.featuredAt = IF featured THEN now + 1 ELSE @]]]
    /\ UNCHANGED <<envProvider, aiService, entries, conversations, nextId, now, served>>
    /\ UNCHANGED rest

\* entry.save() writes the changed paths and the entry is sent (lines 932-938),
\* or it throws
ToggleFeaturedSave(r) ==
    /\ req[r].kind = "toggleFeatured" /\ req[r].pc = "save"
    /\ \/ /\ entries' = StoreAt(req[r].entryId,
                [entries[req[r].entryId] EXCEPT
                    !.featured = req[r].doc.featured,
                    !.featuredAt = req[r].doc.featuredAt])
          /\ now' = now + 1
          /\ req' = [req EXCEPT ![r] = EntryRespond(req[r], 200)]
       \/ /\ req' = [req EXCEPT ![r] = EntryRespond(req[r], 500)]
          /\ UNCHANGED <<entries, now>>
    /\ UNCHANGED <<envProvider, aiService, conversations, nextId, served>>
    /\ UNCHANGED rest

\* the entries the mutations start from: a draft of u1 and a published,
\* featured entry of u2
TwoEntries ==
    << EntryDoc(1, "u1", TRUE, "draft", "Art", FALSE, {}),
       [EntryDoc(2, "u2", TRUE, "published", "Music", TRUE, {}) EXCEPT
            !.featuredAt = 1, !.publishedAt = 1] >>

InitEntries ==
    /\ envProvider = ""
    /\ aiService = Null
    /\ entries = TwoEntries
    /\ conversations = <<>>
    /\ nextId = 1
    /\ now = 2
    /\ served = 0
    /\ req = [r \in {1} |-> EntryIdle]
    /\ RestAtStart

NextEntries ==
    \E r \in Slots :
        \/ CreateEntryBegin(r)
        \/ CreateEntrySave(r)
        \/ CreateEntryPopulate(r)
        \/ UpdateEntryBegin(r)
        \/ UpdateEntryFind(r)
        \/ UpdateEntryUpdate(r)
        \/ TogglePublishStatusBegin(r)
        \/ TogglePublishStatusFind(r)
        \/ TogglePublishStatusSave(r)
        \/ ToggleFeaturedBegin(r)
        \/ ToggleFeaturedFind(r)
        \/ ToggleFeaturedSave(r)

SpecEntries == InitEntries /\ [][NextEntries]_vars

\* ------------------------------------------------- EntryController: likes
\* Array.prototype.indexOf: the first position of x in a, 0 when absent
IndexOf(a, x) ==
    IF \E i \in 1..Len(a) : a[i] = x
    THEN CHOOSE i \in 1..Len(a) : a[i] = x /\ \A j \in 1..(i - 1) : a[j] /= x
    ELSE 0

\* Array.prototype.splice(i, 1)
SpliceOne(a, i) == SubSeq(a, 1, i - 1) \o SubSeq(a, i + 1, Len(a))

\* toggleLike, lines 724-728, up to the await of findById
ToggleLikeBegin(r) ==
    /\ CanAccept(r)
    /\ \E userId \in Users, id \in (1..Len(entries)) \cup {NoSuchEntry} :
        req' = [req EXCEPT ![r] =
            [EntryIdle EXCEPT !.kind = "toggleLike", !.pc = "find",
                              !.user = [userId |-> userId, role |-> "user"],
                              !.entryId = id]]
    /\ served' = served + 1
    /\ UNCHANGED <<envProvider, aiService, entries, conversations, nextId, now>>
    /\ UNCHANGED rest

\* findById resolves: 404, or the likes of the document in hand are changed
\* and save is awaited (lines 728-749); or it throws
ToggleLikeFind(r) ==
    /\ req[r].kind = "toggleLike" /\ req[r].pc = "find"
    /\ \E throws \in BOOLEAN :
        LET q == req[r]
            found == FindById(q.entryId)
            entry == entries[CHOOSE i \in found : TRUE]
            userIdIndex == IndexOf(entry.likes, q.user.userId)
        IN  req' = [req EXCEPT ![r] =
                IF throws THEN EntryRespond(q, 500)
                ELSE IF found = {} THEN EntryRespond(q, 404)
                ELSE IF userIdIndex > 0
                THEN [q EXCEPT !.pc = "save", !.action = "unliked",
                               !.doc = [entry EXCEPT
                                            !.likes = SpliceOne(@, userIdIndex)]]
                ELSE [q EXCEPT !.pc = "save", !.action = "liked",
                               !.doc = [entry EXCEPT
                                            !.likes = Append(@, q.user.userId)]]]
    /\ UNCHANGED <<envProvider, aiService, entries, conversations, nextId, now, served>>
    /\ UNCHANGED rest

\* entry.save() (line 749) sends the change made to the document in hand: a
\* push is sent as a push onto the stored array, a splice as the whole array
\* under the condition that the stored version is the one that was read; then
\* the counts are sent (lines 751-758). Or save throws.
ToggleLikeSave(r) ==
    /\ req[r].kind = "toggleLike" /\ req[r].pc = "save"
    /\ LET q == req[r]
           stored == entries[q.entryId]
           sent == [EntryRespond(q, 200) EXCEPT
                        !.likesCount = Len(q.doc.likes),
                        !.hasLiked = (q.action = "liked")]
       IN  \/ /\ q.action = "liked"
              /\ entries' = StoreAt(q.entryId,
                    [stored EXCEPT !.likes = Append(@, q.user.userId),
                                   !.version = @ + 1])
              /\ req' = [req EXCEPT ![r] = sent]
           \/ /\ q.action = "unliked" /\ stored.version = q.doc.version
              /\ entries' = StoreAt(q.entryId,
                    [stored EXCEPT !.likes = q.doc.likes, !.version = @ + 1])
              /\ req' = [req EXCEPT ![r] = sent]
           \/ /\ req' = [req EXCEPT ![r] = EntryRespond(q, 500)]
              /\ UNCHANGED entries
    /\ UNCHANGED <<envProvider, aiService, conversations, nextId, now, served>>
    /\ UNCHANGED rest

\* the likes an entry starts with
SomeLikes == {<<>>, <<"u2">>, <<"u1", "u2">>}

\* two connections toggling likes of one entry
InitLikes ==
    /\ envProvider = ""
    /\ aiService = Null
    /\ \E likes \in SomeLikes :
            entries = <<[EntryDoc(1, "u1", TRUE, "published", "Art", FALSE, {})
                            EXCEPT !.likes = likes]>>
    /\ conversations = <<>>
    /\ nextId = 1
    /\ now = 0
    /\ served = MaxRequests - 2
    /\ req = [r \in {1, 2} |-> EntryIdle]
    /\ RestAtStart

NextLikes ==
    \E r \in Slots :
        \/ ToggleLikeBegin(r)
        \/ ToggleLikeFind(r)
        \/ ToggleLikeSave(r)

SpecLikes == InitLikes /\ [][NextLikes]_vars

\* ------------------------------------------------------------ AuthController
\* The User collection: its documents, and whether the collection carries a
\* unique index on email and username. The User schema is not part of the
\* controller, so both kinds of collection are considered.
UserDoc(id, username, email, password, isActive) ==
    [id |-> id, username |-> username, email |-> email, password |-> password,
     role |-> "user", isActive |-> isActive, lastLogin |-> 0]

\* bcrypt.hash and bcrypt.compare
Hash(password) == <<"bcrypt", password>>
Compare(password, hashed) == hashed = Hash(password)

\* jwt.sign(payload, secret): the payload of lines 48-53, 126-131, 294-299 and
\* the secret that signed it
Sign(user, secret) ==
    [userId |-> user.id, username |-> user.username, role |-> user.role,
     signedWith |-> secret]

\* jwt.verify(token, JWT_REFRESH_SECRET || JWT_SECRET), line 282-285: FALSE
\* stands for the error it throws
VerifySecret ==
    IF processEnv.JWT_REFRESH_SECRET THEN "JWT_REFRESH_SECRET"
    ELSE IF processEnv.JWT_SECRET THEN "JWT_SECRET" ELSE NoValue

\* no token, and a string that is not a token of this server
NoToken == [userId |-> 0, username |-> NoValue, role |-> NoValue, signedWith |-> NoValue]
Garbage == [NoToken EXCEPT !.signedWith = "garbage"]

Verify(token) ==
    /\ VerifySecret /= NoValue
    /\ token.signedWith = VerifySecret

Emails == {"a@x", "c@x"}
Usernames == {"ann", "cy"}
Passwords == {"p", "q"}

\* the users the collection starts with: one active, one deactivated
SeedUsers ==
    <<UserDoc(1, "ann", "a@x", Hash("p"), TRUE),
      UserDoc(2, "bob", "b@x", Hash("q"), FALSE)>>

RefreshTokens ==
    {NoToken, Garbage} \cup
    {[userId |-> i, username |-> "n", role |-> "user", signedWith |-> s] :
        i \in 1..3, s \in {"JWT_SECRET", "JWT_REFRESH_SECRET"}}

\* no user document in hand
NoUser == UserDoc(0, NoValue, NoValue, <<>>, FALSE)

AuthIdle ==
    [pc |-> "idle", kind |-> "none", username |-> NoValue, email |-> NoValue,
     password |-> NoValue, refreshToken |-> NoToken, userId |-> 0,
     user |-> NoUser, hashedPassword |-> <<>>, status |-> 0,
     token |-> NoToken, error |-> NoValue]

AuthRespond(q, code) == [q EXCEPT !.pc = "done", !.status = code]

\* the catch block: the thrown error is logged and 500 is sent
AuthCatch(q, error) == [AuthRespond(q, 500) EXCEPT !.error = error]

AuthOthers == <<envProvider, aiService, entries, conversations, nextId, processEnv,
                db, screen>>

\* User.findOne({ $or: [{ email }, { username }] }), lines 23-25
FindOneByEmailOrUsername(email, username) ==
    {i \in 1..Len(users.docs) :
        users.docs[i].email = email \/ users.docs[i].username = username}

\* User.findOne({ email }), line 95
FindOneByEmail(email) == {i \in 1..Len(users.docs) : users.docs[i].email = email}

\* User.findById, line 286
FindUserById(id) == {i \in 1..Len(users.docs) : users.docs[i].id = id}

\* register, lines 8-25: validation, then the await of findOne
RegisterBegin(r) ==
    /\ CanAccept(r)
    /\ \E valid \in BOOLEAN, username \in Usernames, email \in Emails,
          password \in Passwords :
        LET q == [AuthIdle EXCEPT !.kind = "register", !.username = username,
                                  !.email = email, !.password = password]
        IN  req' = [req EXCEPT ![r] =
                IF ~valid THEN AuthRespond(q, 400)
                ELSE [q EXCEPT !.pc = "findOne"]]
    /\ served' = served + 1
    /\ UNCHANGED <<AuthOthers, users, now>>

\* findOne resolves: 409 when a user has the email or the username, else the
\* await of bcrypt.hash (lines 27-36); or it throws
RegisterFindOne(r) ==
    /\ req[r].kind = "register" /\ req[r].pc = "findOne"
    /\ \E throws \in BOOLEAN :
        LET q == req[r]
        IN  req' = [req EXCEPT ![r] =
                IF throws THEN AuthCatch(q, "store")
                ELSE IF FindOneByEmailOrUsername(q.email, q.username) /= {}
                THEN AuthRespond(q, 409)
                ELSE [q EXCEPT !.pc = "hash"]]
    /\ UNCHANGED <<AuthOthers, users, now, served>>

\* bcrypt.hash resolves, the document is built and save is awaited (36-45)
RegisterHash(r) ==
    /\ req[r].kind = "register" /\ req[r].pc = "hash"
    /\ req' = [req EXCEPT ![r] =
            [req[r] EXCEPT !.pc = "save", !.hashedPassword = Hash(req[r].password)]]
    /\ UNCHANGED <<AuthOthers, users, now, served>>

\* newUser.save() inserts the document; a collection with the unique index
\* rejects it (E11000) when a stored user has the email or the username; or the
\* store fails;
\* then the token is signed and 201 is sent (lines 45-71). Every throw ends
\* in the catch of lines 72-78.
RegisterSave(r) ==
    /\ req[r].kind = "register" /\ req[r].pc = "save"
    /\ LET q == req[r]
           id == Len(users.docs) + 1
           savedUser == UserDoc(id, q.username, q.email, q.hashedPassword, TRUE)
       IN  \/ /\ users.unique => FindOneByEmailOrUsername(q.email, q.username) = {}
              /\ users' = [users EXCEPT !.docs = Append(@, savedUser)]
              /\ req' = [req EXCEPT ![r] =
                    IF processEnv.JWT_SECRET
                    THEN [AuthRespond(q, 201) EXCEPT
                            !.userId = id, !.user = savedUser,
                            !.token = Sign(savedUser, "JWT_SECRET")]
                    ELSE [AuthCatch(q, "sign") EXCEPT !.userId = id]]
           \/ /\ users.unique
              /\ FindOneByEmailOrUsername(q.email, q.username) /= {}
              /\ req' = [req EXCEPT ![r] = AuthCatch(q, "E11000")]
              /\ UNCHANGED users
           \/ /\ req' = [req EXCEPT ![r] = AuthCatch(q, "store")]
              /\ UNCHANGED users
    /\ UNCHANGED <<AuthOthers, now, served>>

\* login, lines 82-95: validation, then the await of findOne
LoginBegin(r) ==
    /\ CanAccept(r)
    /\ \E valid \in BOOLEAN, email \in Emails \cup {"b@x"}, password \in Passwords :
        LET q == [AuthIdle EXCEPT !.kind = "login", !.email = email,
                                  !.password = password]
        IN  req' = [req EXCEPT ![r] =
                IF ~valid THEN AuthRespond(q, 400)
                ELSE [q EXCEPT !.pc = "findOne"]]
    /\ served' = served + 1
    /\ UNCHANGED <<AuthOthers, users, now>>

\* findOne resolves: 401 without a user, 403 for a deactivated one, else the
\* await of bcrypt.compare (lines 95-112); or it throws
LoginFindOne(r) ==
    /\ req[r].kind = "login" /\ req[r].pc = "findOne"
    /\ \E throws \in BOOLEAN :
        LET q == req[r]
            found == FindOneByEmail(q.email)
            user == users.docs[CHOOSE i \in found : \A j \in found : i <= j]
        IN  req' = [req EXCEPT ![r] =
                IF throws THEN AuthCatch(q, "store")
                ELSE IF found = {} THEN AuthRespond(q, 401)
                ELSE IF ~user.isActive THEN AuthRespond(q, 403)
                ELSE [q EXCEPT !.pc = "compare", !.userId = user.id, !.user = user]]
    /\ UNCHANGED <<AuthOthers, users, now, served>>

\* bcrypt.compare resolves: 401 on a mismatch, else lastLogin is set on the
\* document in hand and save is awaited (lines 112-122)
LoginCompare(r) ==
    /\ req[r].kind = "login" /\ req[r].pc = "compare"
    /\ LET q == req[r]
       IN  req' = [req EXCEPT ![r] =
               IF ~Compare(q.password, q.user.password) THEN AuthRespond(q, 401)
               ELSE [q EXCEPT !.pc = "save", !.user.lastLogin = now + 1]]
    /\ now' = now + 1
    /\ UNCHANGED <<AuthOthers, users, served>>

\* user.save() writes the changed path lastLogin of the stored user, then the
\* token is signed and sent (lines 122-149); jwt.sign throws without a secret
\* and a throw ends in the catch of lines 150-156
LoginSave(r) ==
    /\ req[r].kind = "login" /\ req[r].pc = "save"
    /\ LET q == req[r]
       IN  \/ /\ users' = [users EXCEPT !.docs[q.userId].lastLogin = q.user.lastLogin]
              /\ req' = [req EXCEPT ![r] =
                    IF processEnv.JWT_SECRET
                    THEN [AuthRespond(q, 200) EXCEPT
                            !.token = Sign(q.user, "JWT_SECRET")]
                    ELSE AuthCatch(q, "sign")]
           \/ /\ req' = [req EXCEPT ![r] = AuthCatch(q, "store")]
              /\ UNCHANGED users
    /\ UNCHANGED <<AuthOthers, now, served>>

\* refreshToken, lines 270-286: 401 without a token, 403 from the catch when
\* verify throws, else the await of findById
RefreshTokenBegin(r) ==
    /\ CanAccept(r)
    /\ \E refreshToken \in RefreshTokens :
        LET q == [AuthIdle EXCEPT !.kind = "refreshToken",
                                  !.refreshToken = refreshToken]
        IN  req' = [req EXCEPT ![r] =
                IF refreshToken = NoToken THEN AuthRespond(q, 401)
                ELSE IF ~Verify(refreshToken) THEN AuthRespond(q, 403)
                ELSE [q EXCEPT !.pc = "findById", !.userId = refreshToken.userId]]
    /\ served' = served + 1
    /\ UNCHANGED <<AuthOthers, users, now>>

\* findById resolves: 403 without an active user, else the new token is signed
\* and sent (lines 286-306); every throw ends in the catch of lines 307-313
RefreshTokenFind(r) ==
    /\ req[r].kind = "refreshToken" /\ req[r].pc = "findById"
    /\ \E throws \in BOOLEAN :
        LET q == req[r]
            found == FindUserById(q.userId)
            user == users.docs[CHOOSE i \in found : TRUE]
        IN  req' = [req EXCEPT ![r] =
                IF throws THEN AuthRespond(q, 403)
                ELSE IF found = {} \/ ~user.isActive THEN AuthRespond(q, 403)
                ELSE IF ~processEnv.JWT_SECRET THEN AuthRespond(q, 403)
                ELSE [AuthRespond(q, 200) EXCEPT
                        !.user = user, !.token = Sign(user, "JWT_SECRET")]]
    /\ UNCHANGED <<AuthOthers, users, now, served>>

\* PATCH /api/users/:id/status with { isActive }, the request the user-
\* management screen sends from handleToggleStatus: an administrator
\* activates or deactivates an account
SetUserStatus ==
    /\ served < MaxRequests
    /\ \E i \in 1..Len(users.docs), isActive \in BOOLEAN :
        /\ users.docs[i].isActive /= isActive
        /\ users' = [users EXCEPT !.docs[i].isActive = isActive]
    /\ served' = served + 1
    /\ UNCHANGED <<AuthOthers, now, req>>

\* two connections on the auth routes, a secret that is set or missing
InitAuth ==
    /\ envProvider = ""
    /\ aiService = Null
    /\ entries = <<>>
    /\ conversations = <<>>
    /\ nextId = 1
    /\ now = 0
    /\ served = MaxRequests - 2
    /\ req = [r \in {1, 2} |-> AuthIdle]
    /\ \E unique \in BOOLEAN : users = [docs |-> SeedUsers, unique |-> unique]
    /\ \E secret \in BOOLEAN, refreshSecret \in BOOLEAN :
            processEnv = [DefaultEnv EXCEPT !.JWT_SECRET = secret,
                                            !.JWT_REFRESH_SECRET = refreshSecret]
    /\ db = <<>>
    /\ screen = <<>>

NextAuth ==
    \/ \E r \in Slots :
        \/ RegisterBegin(r)
        \/ RegisterFindOne(r)
        \/ RegisterHash(r)
        \/ RegisterSave(r)
        \/ LoginBegin(r)
        \/ LoginFindOne(r)
        \/ LoginCompare(r)
        \/ LoginSave(r)
        \/ RefreshTokenBegin(r)
        \/ RefreshTokenFind(r)
    \/ SetUserStatus

SpecAuth == InitAuth /\ [][NextAuth]_vars

\* ------------------------------------------- Database and DatabaseMigrations
\* a guard that lets every environment through
IsProductionNever(nodeEnv) == FALSE

\* process.env.NODE_ENV === "production", part_003 lines 403 and 436, part_002
\* line 365
IsProduction(nodeEnv) == nodeEnv = "production"

NodeEnvs == {"production", "development", "test", NoValue}

\* the tables rollback drops (part_002 lines 375-384), the ones dropAllTables
\* and truncateAllTables name (part_003 lines 417-421, 449-453)
MigrationTables ==
    <<"entry_tags", "tags", "media", "conversations", "likes", "comments",
      "entries", "users">>
DatabaseTables == <<"conversations", "likes", "comments", "entries", "users">>
CreatedTables ==
    <<"users", "entries", "comments", "likes", "conversations", "media", "tags",
      "entry_tags">>

Range(s) == {s[i] : i \in 1..Len(s)}

Sql(verb, table) == [verb |-> verb, table |-> table]
ForEach(verb, tables) == [i \in 1..Len(tables) |-> Sql(verb, tables[i])]

\* the statements each method sends, in order
Statements(method) ==
    CASE method = "rollback" ->
            <<Sql("SET FOREIGN_KEY_CHECKS = 0", NoValue)>>
            \o ForEach("DROP TABLE IF EXISTS", MigrationTables)
            \o <<Sql("SET FOREIGN_KEY_CHECKS = 1", NoValue)>>
      [] method = "dropAllTables" ->
            <<Sql("SET FOREIGN_KEY_CHECKS = 0", NoValue)>>
            \o ForEach("DROP TABLE IF EXISTS", DatabaseTables)
            \o <<Sql("SET FOREIGN_KEY_CHECKS = 1", NoValue)>>
      [] method = "truncateAllTables" ->
            <<Sql("SET FOREIGN_KEY_CHECKS = 0", NoValue)>>
            \o ForEach("TRUNCATE TABLE", DatabaseTables)
            \o <<Sql("SET FOREIGN_KEY_CHECKS = 1", NoValue)>>
      [] method = "runMigrations" -> ForEach("CREATE TABLE IF NOT EXISTS", CreatedTables)
      [] method = "seedDatabase" ->
            ForEach("INSERT INTO", <<"users", "tags", "entries">>)
      [] OTHER -> <<>>

\* whether the server rejects the statement
Rejected(d, sql) ==
    /\ sql.verb \in {"TRUNCATE TABLE", "INSERT INTO"}
    /\ \/ sql.table \notin d.tables
       \/ sql.verb = "INSERT INTO" /\ <<sql.table, 0>> \in d.rows

\* the effect of a statement the server accepts
Apply(d, sql) ==
    CASE sql.verb = "SET FOREIGN_KEY_CHECKS = 0" -> [d EXCEPT !.foreignKeyChecks = FALSE]
      [] sql.verb = "SET FOREIGN_KEY_CHECKS = 1" -> [d EXCEPT !.foreignKeyChecks = TRUE]
      [] sql.verb = "DROP TABLE IF EXISTS" ->
            [d EXCEPT !.tables = @ \ {sql.table},
                      !.rows = {row \in @ : row[1] /= sql.table}]
      [] sql.verb = "TRUNCATE TABLE" ->
            [d EXCEPT !.rows = {row \in @ : row[1] /= sql.table}]
      [] sql.verb = "CREATE TABLE IF NOT EXISTS" ->
            [d EXCEPT !.tables = @ \cup {sql.table}]
      [] sql.verb = "INSERT INTO" ->
            [d EXCEPT !.rows = @ \cup {<<sql.table, 0>>}]
      [] OTHER -> d

\* the one connection of the pool: whether a caller holds it, the transaction
\* open on it and the rows that transaction has written
PooledConnection == [held |-> FALSE, inTransaction |-> FALSE, pending |-> {}]

EmptyDatabase ==
    [isConnected |-> FALSE, foreignKeyChecks |-> TRUE, tables |-> {}, rows |-> {},
     issued |-> <<>>, connection |-> PooledConnection]

MigratedDatabase ==
    [EmptyDatabase EXCEPT !.tables = Range(CreatedTables),
                          !.rows = {<<"users", 0>>, <<"entries", 0>>}]

CliCommands == {"migrate", "rollback", "seed", "fresh", "help"}

\* the switch of the command line, part_002 lines 519-554
CallsOf(command) ==
    CASE command \in {"up", "migrate"} -> <<"runMigrations">>
      [] command \in {"down", "rollback"} -> <<"rollback">>
      [] command = "seed" -> <<"seedDatabase">>
      [] command = "fresh" -> <<"rollback", "runMigrations", "seedDatabase">>
      [] OTHER -> <<>>

DbIdle ==
    [pc |-> "idle", kind |-> "none", cli |-> FALSE, calls |-> <<>>, ran |-> <<>>,
     stmts |-> <<>>, error |-> NoValue, thrown |-> NoValue, exitCode |-> -1,
     acquired |-> FALSE, callbackOk |-> FALSE, commitOk |-> FALSE,
     committed |-> FALSE, rolledBack |-> FALSE, releases |-> 0, work |-> 0]

\* an error leaves the method: its catch logs and rethrows; the command line
\* catches it and exits with 1 (part_002 lines 557-560)
Throw(q, error) ==
    [q EXCEPT !.pc = "done", !.error = error, !.thrown = error,
              !.exitCode = IF q.cli THEN 1 ELSE -1]

\* the part of a method before its first await
Enter(q, method, d) ==
    LET q1 == [q EXCEPT !.ran = Append(@, method), !.stmts = Statements(method)]
    IN  CASE method = "rollback" ->
                IF IsProduction(processEnv.NODE_ENV)
                THEN Throw(q1, "Cannot rollback in production environment!")
                ELSE [q1 EXCEPT !.pc = "connect"]
          [] method = "dropAllTables" ->
                IF IsProduction(processEnv.NODE_ENV)
                THEN Throw(q1, "Cannot drop tables in production environment")
                ELSE IF ~d.isConnected THEN Throw(q1, "Database is not connected")
                ELSE [q1 EXCEPT !.pc = "execute"]
          [] method = "truncateAllTables" ->
                IF IsProduction(processEnv.NODE_ENV)
                THEN Throw(q1, "Cannot truncate tables in production environment")
                ELSE IF ~d.isConnected THEN Throw(q1, "Database is not connected")
                ELSE [q1 EXCEPT !.pc = "execute"]
          [] OTHER -> [q1 EXCEPT !.pc = "connect"]

\* the next call of the command, or process.exit(0); a method called by the
\* application returns
Advance(q, d) ==
    IF q.calls /= <<>> THEN Enter([q EXCEPT !.calls = Tail(@)], Head(q.calls), d)
    ELSE [q EXCEPT !.pc = "done", !.exitCode = IF q.cli THEN 0 ELSE -1]

\* process.exit ends the process and with it the pool
AfterExit(q, d) ==
    IF q.pc = "done" /\ q.cli THEN [d EXCEPT !.isConnected = FALSE] ELSE d

DbOthers == <<envProvider, aiService, entries, conversations, nextId, now, users,
              processEnv, screen>>

\* the command line, part_002 lines 517-561
CliDispatch(r) ==
    /\ CanAccept(r)
    /\ \E command \in CliCommands :
        LET q == Advance([DbIdle EXCEPT !.kind = command, !.cli = TRUE,
                                        !.calls = CallsOf(command)], db)
        IN  /\ req' = [req EXCEPT ![r] = q]
            /\ db' = AfterExit(q, db)
    /\ served' = served + 1
    /\ UNCHANGED DbOthers

\* the application calls connect, dropAllTables or truncateAllTables
DatabaseCall(r) ==
    /\ CanAccept(r)
    /\ \E method \in {"connect", "dropAllTables", "truncateAllTables"} :
        req' = [req EXCEPT ![r] = Enter([DbIdle EXCEPT !.kind = method], method, db)]
    /\ served' = served + 1
    /\ UNCHANGED <<DbOthers, db>>

\* connect(), part_003 lines 10-66: the pool in use is returned, or a pool is
\* made and tested; a failure clears isConnected and is rethrown
Connect(r) ==
    /\ req[r].pc = "connect"
    /\ LET q == req[r]
           next == IF q.stmts = <<>> THEN Advance(q, db) ELSE [q EXCEPT !.pc = "execute"]
       IN  \/ /\ req' = [req EXCEPT ![r] = next]
              /\ db' = AfterExit(next, [db EXCEPT !.isConnected = TRUE])
           \/ /\ ~db.isConnected
              /\ req' = [req EXCEPT ![r] = Throw(q, "connect")]
              /\ db' = [db EXCEPT !.isConnected = FALSE]
    /\ UNCHANGED <<DbOthers, served>>

\* one awaited statement (query, part_003 lines 98-111, or pool.execute): it is
\* sent, and it takes effect or throws; after the last one the method returns
Execute(r) ==
    /\ req[r].pc = "execute"
    /\ LET q == req[r]
           sql == Head(q.stmts)
           sent == [db EXCEPT !.issued = Append(@, sql)]
           rest1 == [q EXCEPT !.stmts = Tail(@)]
           next == IF rest1.stmts = <<>> THEN Advance(rest1, Apply(sent, sql)) ELSE rest1
           failed == Throw(q, "query")
       IN  \/ /\ ~Rejected(db, sql)
              /\ req' = [req EXCEPT ![r] = next]
              /\ db' = AfterExit(next, Apply(sent, sql))
           \/ /\ req' = [req EXCEPT ![r] = failed]
              /\ db' = AfterExit(failed, sent)
    /\ UNCHANGED <<DbOthers, served>>

\* transaction(callback), part_003 lines 114-115: the await of getConnection
Transaction(r) ==
    /\ CanAccept(r)
    /\ db.isConnected
    /\ req' = [req EXCEPT ![r] =
            [DbIdle EXCEPT !.kind = "transaction", !.pc = "getConnection",
                           !.work = served + 1]]
    /\ served' = served + 1
    /\ UNCHANGED <<DbOthers, db>>

\* getConnection resolves and beginTransaction is awaited (lines 115-118); or
\* it throws, outside the try
GetConnection(r) ==
    /\ req[r].pc = "getConnection"
    /\ LET q == req[r]
       IN  \/ /\ ~db.connection.held
              /\ req' = [req EXCEPT ![r] =
                    [q EXCEPT !.pc = "beginTransaction", !.acquired = TRUE]]
              /\ db' = [db EXCEPT !.connection.held = TRUE]
           \/ /\ req' = [req EXCEPT ![r] = Throw(q, "getConnection")]
              /\ UNCHANGED db
    /\ UNCHANGED <<DbOthers, served>>

\* the end of transaction: finally releases the connection (lines 128-130)
Finally(q) == [q EXCEPT !.pc = "done", !.releases = @ + 1]
Release(d) == [d EXCEPT !.connection.held = FALSE]

\* beginTransaction resolves and the callback is awaited (lines 118-120); a
\* transaction left open on the connection is committed by the server when
\* the next one begins. Or it throws, and rollback is awaited (line 125).
BeginTransaction(r) ==
    /\ req[r].pc = "beginTransaction"
    /\ LET q == req[r]
       IN  \/ /\ req' = [req EXCEPT ![r] = [q EXCEPT !.pc = "callback"]]
              /\ db' = [db EXCEPT !.rows = @ \cup db.connection.pending,
                                  !.connection.pending = {},
                                  !.connection.inTransaction = TRUE]
           \/ /\ req' = [req EXCEPT ![r] =
                    [q EXCEPT !.pc = "rollback", !.error = "beginTransaction"]]
              /\ UNCHANGED db
    /\ UNCHANGED <<DbOthers, served>>

\* the callback writes a row on the connection and resolves, and commit is
\* awaited (lines 120-122); or it throws, before or after writing
Callback(r) ==
    /\ req[r].pc = "callback"
    /\ LET q == req[r]
           written == [db EXCEPT !.connection.pending = @ \cup {<<"entries", q.work>>}]
       IN  \/ /\ req' = [req EXCEPT ![r] = [q EXCEPT !.pc = "commit", !.callbackOk = TRUE]]
              /\ db' = written
           \/ /\ req' = [req EXCEPT ![r] = [q EXCEPT !.pc = "rollback", !.error = "callback"]]
              /\ db' \in {db, written}
    /\ UNCHANGED <<DbOthers, served>>

\* commit resolves: the work is stored, the result returned and the connection
\* released (lines 122-123, 129); or it throws and rollback is awaited
Commit(r) ==
    /\ req[r].pc = "commit"
    /\ LET q == req[r]
       IN  \/ /\ req' = [req EXCEPT ![r] =
                    Finally([q EXCEPT !.commitOk = TRUE, !.committed = TRUE])]
              /\ db' = Release([db EXCEPT !.rows = @ \cup db.connection.pending,
                                          !.connection.pending = {},
                                          !.connection.inTransaction = FALSE])
           \/ /\ req' = [req EXCEPT ![r] = [q EXCEPT !.pc = "rollback", !.error = "commit"]]
              /\ UNCHANGED db
    /\ UNCHANGED <<DbOthers, served>>

\* rollback in the catch (lines 124-127): it resolves and the caught error is
\* rethrown; or it throws itself, and its error leaves the function in place
\* of the caught one. Either way finally releases the connection.
Rollback(r) ==
    /\ req[r].pc = "rollback"
    /\ LET q == req[r]
       IN  \/ /\ req' = [req EXCEPT ![r] =
                    Finally([q EXCEPT !.rolledBack = TRUE, !.thrown = q.error])]
              /\ db' = Release([db EXCEPT !.connection.pending = {},
                                          !.connection.inTransaction = FALSE])
           \/ /\ req' = [req EXCEPT ![r] = Finally([q EXCEPT !.thrown = "rollback"])]
              /\ db' = Release(db)
    /\ UNCHANGED <<DbOthers, served>>

\* one process at a time on a database that is empty or migrated and seeded,
\* the application having connected at startup or not
InitDatabase ==
    /\ envProvider = ""
    /\ aiService = Null
    /\ entries = <<>>
    /\ conversations = <<>>
    /\ nextId = 1
    /\ now = 0
    /\ served = 0
    /\ req = [r \in {1} |-> DbIdle]
    /\ users = <<>>
    /\ \E nodeEnv \in NodeEnvs : processEnv = [DefaultEnv EXCEPT !.NODE_ENV = nodeEnv]
    /\ db \in {EmptyDatabase, MigratedDatabase,
               [MigratedDatabase EXCEPT !.isConnected = TRUE]}
    /\ screen = <<>>

NextDatabase ==
    \E r \in Slots :
        \/ CliDispatch(r)
        \/ DatabaseCall(r)
        \/ Connect(r)
        \/ Execute(r)
        \/ Transaction(r)
        \/ GetConnection(r)
        \/ BeginTransaction(r)
        \/ Callback(r)
        \/ Commit(r)
        \/ Rollback(r)

SpecDatabase == InitDatabase /\ [][NextDatabase]_vars

\* ------------------------------------------- UserController (React screen)
\* useState of lines 5-19; users and pagination hold the data of a response,
\* written here as the filters the response answers
DefaultFilters == [search |-> "", role |-> "", status |-> "", page |-> 1, limit |-> 10]
NoResponse == [search |-> NoValue, role |-> NoValue, status |-> NoValue, page |-> 0,
               limit |-> 0]

\* the answer of GET /api/users to a query built from the filters (lines 30-38)
ResponseTo(filters) == filters

FilterValues == [search |-> {"", "ann"}, role |-> {"", "admin"}, status |-> {"", "active"}]
ScreenPages == {1, 2}

Unmounted ==
    [mounted |-> FALSE, filters |-> DefaultFilters, users |-> NoResponse,
     pagination |-> NoResponse, loading |-> TRUE, error |-> NoValue,
     inFlight |-> {}, timer |-> NoResponse, started |-> 0]

\* fetchUsers up to its await (lines 24-38): loading is set, the error is
\* cleared, and the request carries the filters of the render the function
\* belongs to
FetchUsers(s, filters) ==
    [s EXCEPT !.loading = TRUE, !.error = NoValue,
              !.inFlight = @ \cup {[id |-> s.started + 1, filters |-> filters]},
              !.started = @ + 1]

\* the effects after a render (lines 53-66): a fetch when page, role or status
\* changed, a new 500 ms timer in place of the pending one when search changed
RunEffects(s, before) ==
    LET fetched == IF \/ s.filters.page /= before.page
                      \/ s.filters.role /= before.role
                      \/ s.filters.status /= before.status
                   THEN FetchUsers(s, s.filters) ELSE s
    IN  IF s.filters.search /= before.search
        THEN [fetched EXCEPT !.timer = s.filters] ELSE fetched

ScreenOthers == <<envProvider, aiService, entries, conversations, nextId, now, served,
                  req, users, processEnv, db>>

\* the first render: both effects run (lines 53-66)
Mount ==
    /\ ~screen.mounted
    /\ screen' = [FetchUsers(screen, screen.filters) EXCEPT
                        !.mounted = TRUE, !.timer = screen.filters]
    /\ UNCHANGED ScreenOthers

\* handleFilterChange, lines 69-71, and the effects of the render it causes
HandleFilterChange ==
    /\ screen.mounted
    /\ \E key \in DOMAIN FilterValues : \E value \in FilterValues[key] :
        LET next == RunEffects([screen EXCEPT !.filters[key] = value,
                                              !.filters.page = 1], screen.filters)
        IN  /\ next.started <= MaxFetches
            /\ next /= screen
            /\ screen' = next
    /\ UNCHANGED ScreenOthers

\* handlePageChange, lines 74-76, and the effects of the render it causes
HandlePageChange ==
    /\ screen.mounted
    /\ \E newPage \in ScreenPages :
        LET next == RunEffects([screen EXCEPT !.filters.page = newPage], screen.filters)
        IN  /\ next.started <= MaxFetches
            /\ next /= screen
            /\ screen' = next
    /\ UNCHANGED ScreenOthers

\* the timer of lines 59-63 fires: fetchUsers of the render that set it
TimerFires ==
    /\ screen.timer /= NoResponse
    /\ screen.started < MaxFetches
    /\ screen' = [FetchUsers(screen, screen.timer) EXCEPT !.timer = NoResponse]
    /\ UNCHANGED ScreenOthers

\* one request is answered (lines 40-50): the data are shown, or the error is,
\* and loading is cleared
ResponseArrives ==
    /\ \E fetch \in screen.inFlight, ok \in BOOLEAN :
        LET s == [screen EXCEPT !.inFlight = @ \ {fetch}, !.loading = FALSE]
        IN  screen' = IF ok
                      THEN [s EXCEPT !.users = ResponseTo(fetch.filters),
                                     !.pagination = ResponseTo(fetch.filters)]
                      ELSE [s EXCEPT !.error = "Failed to fetch users"]
    /\ UNCHANGED ScreenOthers

InitScreen ==
    /\ envProvider = ""
    /\ aiService = Null
    /\ entries = <<>>
    /\ conversations = <<>>
    /\ nextId = 1
    /\ now = 0
    /\ served = 0
    /\ req = [r \in {1} |-> Idle]
    /\ users = <<>>
    /\ processEnv = DefaultEnv
    /\ db = <<>>
    /\ screen = Unmounted

NextScreen ==
    \/ Mount
    \/ HandleFilterChange
    \/ HandlePageChange
    \/ TimerFires
    \/ ResponseArrives

SpecScreen == InitScreen /\ [][NextScreen]_vars

\* ------------------------------------------------------------------ claims
InFlight(r) == req[r].pc \notin {"idle", "done"}

\* the request of connection r takes a step of askQuestion after its first
AskStep(r) == req[r].kind = "ask" /\ InFlight(r) /\ req'[r] /= req[r]

\* the request of connection r names a stored conversation of another user
NamesForeignConversation(r) ==
    /\ req[r].conversationId \in DOMAIN conversations
    /\ conversations[req[r].conversationId].userId /= req[r].user

IsPrefix(a, b) == Len(a) <= Len(b) /\ SubSeq(b, 1, Len(a)) = a

\* C1: an askQuestion request of user A that names a conversation c of another
\* user B takes none of c's messages into its history and leaves c's messages
\* and update time as they were.
C1_OwnershipIsolation ==
    [][\A r \in Slots :
        (AskStep(r) /\ NamesForeignConversation(r)) =>
            /\ req'[r].conversationHistory = <<>>
            /\ req[r].conversationId \in DOMAIN conversations'
            /\ conversations'[req[r].conversationId] =
                    conversations[req[r].conversationId]]_vars

\* C1, the half that holds: no message of another user's conversation enters
\* the history of the request.
C1_NoForeignHistory ==
    \A r \in Slots :
        (req[r].kind = "ask" /\ NamesForeignConversation(r)) =>
            req[r].conversationHistory = <<>>

GenerationKinds == {"ask", "suggest", "tags", "analyze"}

\* C2: with no provider configured, every request to a generation endpoint
\* that passes validation is answered 503 and makes no read or write on the
\* store.
C2_UnavailableTouchesNothing ==
    \A r \in Slots :
        (aiService = Null /\ req[r].kind \in GenerationKinds /\ req[r].valid) =>
            /\ req[r].storeOps = {}
            /\ req[r].pc = "done" => req[r].status = 503

\* C3: a successful askQuestion request without conversationId creates exactly
\* one conversation, owned by the requester, with the messages [user: question,
\* assistant: answer], and returns its id.
C3_StartCreatesOneConversation ==
    [][\A r \in Slots :
        (AskStep(r) /\ req[r].conversationId = 0
            /\ req'[r].pc = "done" /\ req'[r].status = 200) =>
            LET id == req'[r].newConversationId
            IN  /\ id \notin DOMAIN conversations
                /\ DOMAIN conversations' = DOMAIN conversations \cup {id}
                /\ \A c \in DOMAIN conversations : conversations'[c] = conversations[c]
                /\ conversations'[id].userId = req[r].user
                /\ conversations'[id].messages =
                      << [role |-> "user", content |-> req[r].question],
                         [role |-> "assistant", content |-> req'[r].answer] >>]_vars

C3_Witness ==
    \E r \in Slots :
        /\ req[r].kind = "ask" /\ req[r].pc = "done" /\ req[r].status = 200
        /\ req[r].conversationId = 0
        /\ req[r].answer \in Answers
        /\ req[r].newConversationId \in DOMAIN conversations
        /\ Cardinality(DOMAIN conversations) >= 2

\* C4: across the steps of askQuestion requests every stored conversation
\* stays stored and its messages before the step are a prefix of its messages
\* after it.
C4_MessagesAppendOnly ==
    [][(\E r \in Slots : AskStep(r)) =>
        \A c \in DOMAIN conversations :
            /\ c \in DOMAIN conversations'
            /\ IsPrefix(conversations[c].messages, conversations'[c].messages)]_vars

C4_Witness ==
    \E c \in DOMAIN conversations :
        /\ conversations[c].updatedAt > 0
        /\ Len(conversations[c].messages) >= 6

\* C5: the history taken on continuation of a conversation with n messages is
\* its last min(5, n) messages in stored order, and no history is longer
\* than 5.
C5_HistoryIsLastFive ==
    [][\A r \in Slots :
        (AskStep(r) /\ req[r].pc = "history" /\ req'[r].pc /= "done") =>
            LET h == req'[r].conversationHistory
                id == req[r].conversationId
                owned == id \in DOMAIN conversations
                            /\ conversations[id].userId = req[r].user
                m == IF owned THEN conversations[id].messages ELSE <<>>
                k == IF Len(m) < 5 THEN Len(m) ELSE 5
            IN  /\ Len(h) = k
                /\ Len(h) <= 5
                /\ \A i \in 1..k : h[i] = m[Len(m) - k + i]
                /\ req'[r].prompted]_vars

C5_Witness ==
    \E r \in Slots :
        /\ req[r].kind = "ask" /\ req[r].prompted /\ InFlight(r)
        /\ Len(req[r].conversationHistory) = 5
        /\ req[r].conversationId \in DOMAIN conversations
        /\ Len(conversations[req[r].conversationId].messages) > 5

\* the characters of s from position i up to the next comma or the end
RECURSIVE RunFrom(_, _)
RunFrom(s, i) ==
    IF i > Len(s) \/ s[i] = "," THEN <<>> ELSE <<s[i]>> \o RunFrom(s, i + 1)

\* the pieces of s between its commas, read from position i on
RECURSIVE PiecesFrom(_, _)
PiecesFrom(s, i) ==
    LET run == RunFrom(s, i)
    IN  IF i + Len(run) > Len(s) THEN <<run>>
        ELSE <<run>> \o PiecesFrom(s, i + Len(run) + 1)

RECURSIVE StripLeft(_)
StripLeft(s) ==
    IF s = <<>> \/ Head(s) \notin {" ", "\t", "\n"} THEN s ELSE StripLeft(Tail(s))

RECURSIVE StripRight(_)
StripRight(s) ==
    IF s = <<>> \/ s[Len(s)] \notin {" ", "\t", "\n"} THEN s
    ELSE StripRight(SubSeq(s, 1, Len(s) - 1))

\* the trimmed pieces of a text that are neither empty nor longer than 49
Survivors(text) ==
    LET pieces == PiecesFrom(text, 1)
        stripped == [k \in 1..Len(pieces) |-> StripRight(StripLeft(pieces[k]))]
    IN  SelectSeq(stripped, LAMBDA t : Len(t) >= 1 /\ Len(t) <= 49)

\* C6: the tags returned by generateTags are the pieces of the adapter's text
\* between commas, trimmed, without the empty ones and those longer than 49
\* characters, the first 15 of them in order; count is their number.
C6_TagParsing ==
    \A r \in Slots :
        (req[r].kind = "tags" /\ req[r].pc = "done" /\ req[r].status = 200) =>
            LET survivors == Survivors(req[r].aiResponse)
                n == IF Len(survivors) < 15 THEN Len(survivors) ELSE 15
            IN  /\ req[r].tags = [k \in 1..n |-> survivors[k]]
                /\ req[r].count = Len(req[r].tags)

C6_Witness ==
    \E r \in Slots :
        /\ req[r].kind = "tags" /\ req[r].pc = "done" /\ req[r].status = 200
        /\ req[r].count = 15
        /\ Len(Survivors(req[r].aiResponse)) > 15
        /\ \E k \in 1..Len(PiecesFrom(req[r].aiResponse, 1)) :
                Len(StripRight(StripLeft(PiecesFrom(req[r].aiResponse, 1)[k]))) = 50

\* the entry a block of the reference context was built from
EntryOfBlock(block) == entries[CHOOSE i \in 1..Len(entries) : entries[i].id = block.entry]

\* C7: in the reference context of askQuestion the text taken from an entry's
\* description is at most 200 characters long and the text taken from its
\* culturalContext at most 150, whatever the length of the fields.
C7_ContextBudgets ==
    \A r \in Slots :
        \A i \in 1..Len(req[r].entryContext) :
            /\ Len(req[r].entryContext[i].description) <= 200
            /\ Len(req[r].entryContext[i].culturalContext) <= 150

C7_Witness ==
    \E r \in Slots :
        \E i \in 1..Len(req[r].entryContext), j \in 1..Len(req[r].entryContext) :
            /\ req[r].prompted
            /\ Len(EntryOfBlock(req[r].entryContext[i]).description) > 200
            /\ Len(req[r].entryContext[i].description) = 200
            /\ Len(EntryOfBlock(req[r].entryContext[j]).culturalContext) > 150
            /\ Len(req[r].entryContext[j].culturalContext) = 150

\* C8: with includeEntries set the prompt of askQuestion holds at most 5
\* entries, each authored by the requester and published; with includeEntries
\* unset it holds no entry and no Entry lookup is made.
C8_OwnPublishedEntriesOnly ==
    \A r \in Slots :
        (req[r].kind = "ask" /\ InFlight(r)) =>
            /\ Len(req[r].entryContext) <= 5
            /\ \A i \in 1..Len(req[r].entryContext) :
                  /\ EntryOfBlock(req[r].entryContext[i]).author = req[r].user
                  /\ EntryOfBlock(req[r].entryContext[i]).status = "published"
            /\ ~req[r].includeEntries =>
                  /\ req[r].entryContext = <<>>
                  /\ "Entry.find" \notin req[r].storeOps

C8_Witness ==
    \E r \in Slots :
        /\ req[r].kind = "ask" /\ req[r].prompted /\ InFlight(r)
        /\ Len(req[r].entryContext) = 5
        /\ Cardinality({i \in 1..Len(entries) :
                entries[i].author = req[r].user /\ entries[i].status = "published"}) > 5
        /\ \E i \in 1..Len(entries) :
                /\ i < req[r].entryContext[5].entry
                /\ entries[i].author /= req[r].user \/ entries[i].status /= "published"

\* C9: when the lookup of the reference entries or of the conversation
\* history fails during askQuestion, the request goes on to the adapter and
\* is not answered with an error because of it.
C9_AssemblyNeverFails ==
    [][\A r \in Slots :
        (AskStep(r) /\ req[r].pc \in {"entries", "history"}) =>
            req'[r].pc /= "done"]_vars

\* C9, the half that holds: a failed lookup of the reference entries leaves
\* the reference context empty and the request goes on.
C9_EntryLookupSwallowed ==
    [][\A r \in Slots :
        (AskStep(r) /\ req[r].pc = "entries") => req'[r].pc /= "done"]_vars

\* C10: a successful askQuestion request with a conversationId appends the
\* pair [user: question, assistant: answer] to that conversation and refreshes
\* its update time, and the id in the response names a stored conversation of
\* the requester whose last two messages are this exchange.
C10_ContinuationPersists ==
    [][\A r \in Slots :
        (AskStep(r) /\ req[r].conversationId /= 0
            /\ req'[r].pc = "done" /\ req'[r].status = 200) =>
            LET id == req'[r].newConversationId
                pair == << [role |-> "user", content |-> req[r].question],
                           [role |-> "assistant", content |-> req'[r].answer] >>
            IN  /\ id \in DOMAIN conversations'
                /\ conversations'[id].userId = req[r].user
                /\ Len(conversations'[id].messages) >= 2
                /\ SubSeq(conversations'[id].messages,
                          Len(conversations'[id].messages) - 1,
                          Len(conversations'[id].messages)) = pair
                /\ id \in DOMAIN conversations =>
                      /\ conversations'[id].messages =
                            conversations[id].messages \o pair
                      /\ conversations'[id].updatedAt > conversations[id].updatedAt]_vars

\* C10 for a conversation of the requester: the pair is appended, the update
\* time refreshed and the id returned.
C10_OwnContinuationPersists ==
    [][\A r \in Slots :
        (AskStep(r) /\ req[r].conversationId \in DOMAIN conversations
            /\ conversations[req[r].conversationId].userId = req[r].user
            /\ req'[r].pc = "done" /\ req'[r].status = 200) =>
            LET id == req[r].conversationId
            IN  /\ req'[r].newConversationId = id
                /\ conversations'[id].messages = conversations[id].messages \o
                      << [role |-> "user", content |-> req[r].question],
                         [role |-> "assistant", content |-> req'[r].answer] >>
                /\ conversations'[id].updatedAt > conversations[id].updatedAt]_vars

\* both connections hold an answered, successful continuation of conversation c
BothContinued(c) ==
    /\ Slots = {1, 2}
    /\ \A r \in Slots :
          /\ req[r].kind = "ask" /\ req[r].pc = "done" /\ req[r].status = 200
          /\ req[r].conversationId = c
    /\ c \in DOMAIN conversations

\* the pair a connection's request stored
PairOf(r) ==
    << [role |-> "user", content |-> req[r].question],
       [role |-> "assistant", content |-> req[r].answer] >>

\* C11 as stated: two continuations of one conversation that both read it
\* before either wrote and both return success leave only one of their two
\* pairs in it (the last writer wins).
C11_LastWriterWins ==
    \A c \in DOMAIN conversations :
        (BothContinued(c) /\ req[1].seen = req[2].seen /\ req[1].seen > 0) =>
            Len(conversations[c].messages) = req[1].seen + 2

\* C11 as amended: two continuations of one conversation that both return
\* success leave both pairs in it, one after the other, whatever the
\* interleaving.
C11_BothPairsKept ==
    \A c \in DOMAIN conversations :
        BothContinued(c) =>
            LET m == conversations[c].messages
                tail == SubSeq(m, Len(m) - 3, Len(m))
            IN  /\ Len(m) >= 4
                /\ tail \in {PairOf(1) \o PairOf(2), PairOf(2) \o PairOf(1)}
                /\ (req[1].seen = req[2].seen /\ req[1].seen > 0) =>
                        Len(m) = req[1].seen + 4

C11_Witness ==
    \E c \in DOMAIN conversations :
        /\ BothContinued(c)
        /\ req[1].seen = req[2].seen /\ req[1].seen > 0
        /\ req[1].user = req[2].user
        /\ PairOf(1) /= PairOf(2)
        /\ Len(conversations[c].messages) = req[1].seen + 4

VariantKinds == {"suggest", "tags", "analyze"}

\* C12: no step of a getEntrySuggestions, generateTags or
\* analyzeCulturalSignificance request, from its arrival to its response,
\* successful or failed, changes the conversations or the entries.
C12_VariantsStateless ==
    [][\A r \in Slots :
        (req'[r] /= req[r] /\ req'[r].kind \in VariantKinds) =>
            /\ conversations' = conversations
            /\ entries' = entries
            /\ nextId' = nextId]_vars

C12_Witness ==
    \E r \in Slots :
        /\ req[r].kind \in VariantKinds /\ req[r].pc = "done"
        /\ req[r].status = 200 /\ req[r].adapterCalls = 1
        /\ conversations /= <<>> /\ entries /= <<>>

\* the status the error taxonomy gives an adapter failure: quota exhausted
\* 503, rate limited (by code or by HTTP status 429) 429, context too long
\* 400, anything else 500
TaxonomyStatus(error) ==
    IF error.code = "insufficient_quota" THEN 503
    ELSE IF error.code = "rate_limit_exceeded" \/ error.status = 429 THEN 429
    ELSE IF error.code = "context_length_exceeded" THEN 400
    ELSE 500

\* the adapter call of the request of connection r has thrown
AdapterFailed(r) ==
    /\ req[r].pc = "done" /\ req[r].adapterCalls = 1
    /\ req[r].error /= NoError
    /\ ~(\E op \in req[r].storeOps : op \in {"Conversation.save",
                                             "Conversation.findByIdAndUpdate"})

\* C13: askQuestion answers an adapter failure with the status of its class:
\* rate limited 429, quota exhausted 503, context too long 400, other 500.
C13_AskErrorTaxonomy ==
    \A r \in Slots :
        (req[r].kind = "ask" /\ AdapterFailed(r)) =>
            req[r].status = TaxonomyStatus(req[r].error)

\* C14: getEntrySuggestions, generateTags and analyzeCulturalSignificance
\* answer an adapter failure with the same statuses as askQuestion does.
C14_VariantErrorTaxonomy ==
    \A r \in Slots :
        (req[r].kind \in VariantKinds /\ AdapterFailed(r)) =>
            req[r].status = TaxonomyStatus(req[r].error)

\* C15: when the adapter has returned a text and the save or the append of
\* the exchange throws, askQuestion answers 500, the response carries no
\* generated text, and nothing is stored.
C15_PersistFailureIsInternal ==
    [][\A r \in Slots :
        (/\ req[r].kind = "ask" /\ req[r].pc = "persist"
         /\ req[r].aiResponse \in Answers
         /\ req'[r].error /= NoError) =>
            /\ req'[r].pc = "done"
            /\ req'[r].status = 500
            /\ req'[r].answer = Undefined
            /\ conversations' = conversations]_vars

C15_Witness ==
    \E r \in Slots :
        /\ req[r].kind = "ask" /\ req[r].pc = "done"
        /\ req[r].adapterCalls = 1 /\ req[r].error = StoreError
        /\ \E op \in req[r].storeOps :
              op \in {"Conversation.save", "Conversation.findByIdAndUpdate"}
        /\ req[r].status = 500 /\ req[r].answer = Undefined

\* C16: with a supported provider (openai, anthropic, google) selected and
\* initialized, every generation request that is answered with success has
\* called the provider's API once and returns the text it generated, and a
\* valid tag request does call it.
C16_EveryProviderDispatches ==
    (ProviderName \in {"openai", "anthropic", "google"} /\ aiService /= Null) =>
        \A r \in Slots :
            /\ (req[r].kind \in GenerationKinds /\ req[r].pc = "done"
                    /\ req[r].status = 200) =>
                    /\ req[r].adapterCalls = 1
                    /\ (IF req[r].kind = "tags" THEN req[r].aiResponse
                        ELSE req[r].answer) /= Undefined
            /\ (req[r].kind = "tags" /\ req[r].pc = "done" /\ req[r].valid) =>
                    req[r].adapterCalls = 1

\* C17: when the provider selected at construction is unsupported or fails
\* to initialize, aiService is null for good: every generation request that
\* passes validation is answered 503, and the status route reports
\* available = false with every feature flag false.
C17_UnavailableForGood ==
    (aiService = Null) =>
        \A r \in Slots :
            /\ (req[r].kind \in GenerationKinds /\ req[r].pc = "done"
                    /\ req[r].valid) => req[r].status = 503
            /\ (req[r].kind = "status" /\ req[r].pc = "done") =>
                    /\ ~req[r].available
                    /\ \A f \in FeatureNames : ~req[r].features[f]

\* the part of C17 about the service itself: no step changes aiService, and
\* the status route reports what it is
C17_ServiceDecidedOnce ==
    [][/\ aiService' = aiService
       /\ envProvider' = envProvider
       /\ \A r \in Slots :
            (req'[r] /= req[r] /\ req'[r].kind = "status") =>
                /\ req'[r].available = (aiService /= Null)
                /\ \A f \in FeatureNames :
                        req'[r].features[f] = req'[r].available]_vars

\* findOneAndDelete of the delete request of connection r resolves in this step
DeleteResolves(r) ==
    /\ req[r].kind = "delete" /\ req[r].pc = "find"
    /\ req'[r].pc = "done" /\ req'[r].error = NoError

Owns(user, c) == c \in DOMAIN conversations /\ conversations[c].userId = user

\* C18 as stated: deleteConversation removes the conversation when the
\* requester is its owner or an admin, and answers 404 and leaves it intact
\* for any other requester.
C18_OwnerOrAdminDeletes ==
    [][\A r \in Slots :
        (DeleteResolves(r) /\ req[r].conversationId \in DOMAIN conversations) =>
            IF Owns(req[r].user, req[r].conversationId) \/ req[r].role = "admin"
            THEN /\ req[r].conversationId \notin DOMAIN conversations'
                 /\ req'[r].status = 200
            ELSE /\ conversations' = conversations
                 /\ req'[r].status = 404]_vars

\* C18 as amended: deleteConversation removes the conversation, and only
\* it, when the requester is its owner; for any other requester, an admin
\* included, it answers 404 and leaves the store as it is; and a step that
\* removes a conversation is the delete of its owner.
C18_OnlyOwnerDeletes ==
    [][/\ \A r \in Slots :
            DeleteResolves(r) =>
                LET id == req[r].conversationId
                IN  IF Owns(req[r].user, id)
                    THEN /\ req'[r].status = 200
                         /\ DOMAIN conversations' = DOMAIN conversations \ {id}
                         /\ \A c \in DOMAIN conversations' :
                                conversations'[c] = conversations[c]
                    ELSE /\ req'[r].status = 404
                         /\ conversations' = conversations
       /\ \A c \in DOMAIN conversations :
            c \notin DOMAIN conversations' =>
                \E r \in Slots :
                    /\ DeleteResolves(r) /\ req[r].conversationId = c
                    /\ Owns(req[r].user, c)]_vars

C18_Witness ==
    \E r \in Slots :
        /\ req[r].kind = "delete" /\ req[r].pc = "done"
        /\ req[r].role = "admin"
        /\ req[r].conversationId \in DOMAIN conversations
        /\ ~Owns(req[r].user, req[r].conversationId)
        /\ req[r].status = 404

\* C19: getConversations lists only conversations the caller owns, counts
\* only those, and getConversationById answers 404 and returns nothing for a
\* conversation another user owns.
C19_ReadIsolation ==
    [][\A r \in Slots :
        /\ (req[r].kind = "list" /\ req[r].pc = "find" /\ req'[r].pc = "count") =>
                \A i \in 1..Len(req'[r].listed) :
                    /\ Owns(req[r].user, req'[r].listed[i].id)
                    /\ req'[r].listed[i].messages =
                            conversations[req'[r].listed[i].id].messages
        /\ (req[r].kind = "list" /\ req[r].pc = "count" /\ req'[r].status = 200) =>
                req'[r].total = Cardinality({c \in DOMAIN conversations :
                                                Owns(req[r].user, c)})
        /\ (req[r].kind = "read" /\ req[r].pc = "find" /\ req'[r].pc = "done"
                /\ req[r].conversationId \in DOMAIN conversations
                /\ ~Owns(req[r].user, req[r].conversationId)
                /\ req'[r].error = NoError) =>
                /\ req'[r].status = 404
                /\ req'[r].returned = <<>>
        /\ (req'[r] /= req[r] /\ req'[r].kind \in {"list", "read"}) =>
                \A i \in 1..Len(req'[r].returned) :
                    req'[r].returned[i].userId = req'[r].user]_vars

\* a user has listed their conversations while the other user owns one
C19_Witness ==
    \E r \in Slots :
        /\ req[r].kind = "list" /\ req[r].pc = "done" /\ req[r].status = 200
        /\ Len(req[r].listed) = 1 /\ req[r].total = 1
        /\ Owns(req[r].user, req[r].listed[1].id)
        /\ \E c \in DOMAIN conversations : ~Owns(req[r].user, c)

\* the adapter call of the request of connection r throws in this step
AdapterThrows(r) ==
    /\ req[r].pc = "adapter" /\ req[r].kind \in GenerationKinds
    /\ req'[r].error /= NoError

\* C20: a generation request invokes the adapter at most once; when the
\* invocation fails the request ends at once with an error response, the
\* adapter is not invoked again and nothing is written to the store.
C20_NoRetry ==
    [][\A r \in Slots :
        /\ req'[r].adapterCalls <= 1
        /\ AdapterThrows(r) =>
            /\ req'[r].pc = "done"
            /\ req'[r].status \in {400, 429, 500, 503}
            /\ req'[r].adapterCalls = req[r].adapterCalls
            /\ req'[r].storeOps = req[r].storeOps
            /\ conversations' = conversations
            /\ entries' = entries]_vars

C20_Witness ==
    \E r \in Slots :
        /\ req[r].kind = "ask" /\ AdapterFailed(r)
        /\ req[r].error.code = "rate_limit_exceeded"
        /\ req[r].status \in {429, 503}
        /\ req[r].answer = Undefined

\* C21: an askQuestion or generateTags request that fails validation is
\* answered 400 with the field errors in the step it arrives, with no adapter
\* call and no store access, whether or not a provider is configured.
C21_ValidationFirst ==
    [][\A r \in Slots :
        (req'[r] /= req[r] /\ req'[r].kind \in {"ask", "tags"}
            /\ ~req'[r].valid) =>
            /\ req'[r].pc = "done"
            /\ req'[r].status = 400
            /\ req'[r].errors /= <<>>
            /\ req'[r].adapterCalls = 0
            /\ req'[r].storeOps = {}
            /\ ~req'[r].prompted
            /\ conversations' = conversations
            /\ entries' = entries]_vars

C21_Witness ==
    \E r \in Slots :
        /\ aiService = Null
        /\ req[r].kind \in {"ask", "tags"} /\ req[r].pc = "done"
        /\ ~req[r].valid /\ req[r].status = 400
        /\ req[r].errors /= <<>> /\ req[r].storeOps = {}

\* an askQuestion request has arrived and has not been answered
AskPending == \E r \in Slots : req[r].kind = "ask" /\ req[r].status = 0
AskAnswered == \A r \in Slots : req[r].kind = "ask" /\ req[r].status /= 0

\* C22: every askQuestion request whose awaits all settle is answered in the
\* end; once it is answered its record changes no more (no second response,
\* no further adapter call), and only an unanswered request writes the store.
C22_TerminatesOnce ==
    /\ [][\A r \in Slots :
            /\ (req[r].status /= 0 /\ req'[r] /= req[r]) => served' = served + 1
            /\ (req[r].status /= 0 /\ req'[r] = req[r]) =>
                    /\ conversations' = conversations
                    /\ entries' = entries]_vars
    /\ (AskPending ~> AskAnswered)

C22_Witness ==
    \E r \in Slots :
        /\ req[r].kind = "ask" /\ req[r].pc = "done" /\ req[r].status = 200
        /\ req[r].adapterCalls = 1
        /\ "Conversation.findByIdAndUpdate" \in req[r].storeOps
        /\ served = MaxRequests

\* may the requester see the entry: it is public and published, or their own
VisibleTo(entry, user) ==
    \/ entry.isPublic /\ entry.status = "published"
    \/ entry.author = user.userId

\* C23: for a requester who is not an admin, signed in or not, the filter of
\* getAllEntries matches only entries that are public and published or that
\* the requester wrote, and so do the page, the total and the categories.
C23_ListingVisibility ==
    \A r \in Slots :
        (req[r].kind = "getAllEntries" /\ req[r].user.role /= "admin") =>
            /\ \A i \in 1..Len(entries) :
                    Matches(entries[i], req[r].filter) =>
                        VisibleTo(entries[i], req[r].user)
            /\ \A k \in 1..Len(req[r].listed) :
                    VisibleTo(req[r].listed[k], req[r].user)
            /\ req[r].totalEntries <=
                    Cardinality({i \in 1..Len(entries) :
                                    VisibleTo(entries[i], req[r].user)})

C23_Witness ==
    \E r \in Slots :
        /\ req[r].kind = "getAllEntries" /\ req[r].pc = "done"
        /\ req[r].status = 200 /\ req[r].user.role = "user"
        /\ req[r].query.authorId = req[r].user.userId
        /\ \E k \in 1..Len(req[r].listed) :
                ~req[r].listed[k].isPublic /\ req[r].listed[k].status = "draft"
        /\ \E i \in 1..Len(entries) : ~VisibleTo(entries[i], req[r].user)

\* C24: no step of a request made by a user without the admin role changes
\* the featured flag or featuredAt of an existing entry.
C24_FeaturingAdminOnly ==
    [][\A r \in Slots :
        (req'[r] /= req[r] /\ req'[r].user.role /= "admin") =>
            \A i \in 1..Len(entries) :
                /\ entries'[i].featured = entries[i].featured
                /\ entries'[i].featuredAt = entries[i].featuredAt]_vars

\* the part of C24 about toggleFeatured itself: it answers 403 to a requester
\* without the admin role before it reads the store
C24_ToggleFeaturedGuarded ==
    [][\A r \in Slots :
        (req'[r] /= req[r] /\ req'[r].kind = "toggleFeatured"
            /\ req'[r].user.role /= "admin") =>
            /\ req'[r].pc = "done" /\ req'[r].status = 403
            /\ entries' = entries]_vars

\* how often x occurs in the array a
Occurrences(a, x) == Cardinality({i \in 1..Len(a) : a[i] = x})

\* the save of the toggleLike request of connection r succeeds in this step
LikeSaved(r) ==
    /\ req[r].kind = "toggleLike" /\ req[r].pc = "save"
    /\ req'[r].pc = "done" /\ req'[r].status = 200

\* C30: a successful toggleLike flips the requester's membership in the
\* stored likes and nobody else's, no user is in likes twice, and the
\* hasLiked and likesCount it returns are the stored membership and length.
C30_ToggleLikeFlips ==
    [][\A r \in Slots :
        LikeSaved(r) =>
            LET before == entries[req[r].entryId].likes
                after == entries'[req[r].entryId].likes
                me == req[r].user.userId
            IN  /\ Occurrences(after, me) = 1 - Occurrences(before, me)
                /\ \A u \in Users \ {me} :
                        Occurrences(after, u) = Occurrences(before, u)
                /\ req'[r].hasLiked = (Occurrences(after, me) = 1)
                /\ req'[r].likesCount = Len(after)]_vars

\* the part of C30 that holds: a toggleLike whose entry nobody has written
\* between its read and its save does all of the above
C30_FlipsWhenUndisturbed ==
    [][\A r \in Slots :
        (LikeSaved(r) /\ entries[req[r].entryId].version = req[r].doc.version) =>
            LET before == entries[req[r].entryId].likes
                after == entries'[req[r].entryId].likes
                me == req[r].user.userId
            IN  /\ Occurrences(after, me) = 1 - Occurrences(before, me)
                /\ \A u \in Users \ {me} :
                        Occurrences(after, u) = Occurrences(before, u)
                /\ req'[r].hasLiked = (Occurrences(after, me) = 1)
                /\ req'[r].likesCount = Len(after)]_vars

\* a token is handed out by request r in this step
TokenIssued(r) ==
    /\ req'[r].kind \in {"login", "refreshToken"}
    /\ req[r].pc /= "done" /\ req'[r].pc = "done"
    /\ req'[r].token /= NoToken

\* C25: login issues a token only for an existing, active user whose password
\* matches, refreshToken only for a verified refresh token of an existing,
\* active user; the account is active at the moment the token is issued; and
\* lastLogin changes only in a login that succeeds.
C25_TokenIssuance ==
    [][/\ \A r \in Slots : TokenIssued(r) =>
             \E i \in 1..Len(users.docs) :
                /\ users.docs[i].id = req'[r].token.userId
                /\ users.docs[i].isActive
                /\ req[r].kind = "login" =>
                        /\ users.docs[i].email = req[r].email
                        /\ Compare(req[r].password, users.docs[i].password)
                /\ req[r].kind = "refreshToken" => Verify(req[r].refreshToken)
       /\ \A i \in 1..Len(users.docs) :
             users'.docs[i].lastLogin /= users.docs[i].lastLogin =>
                \E r \in Slots :
                    /\ req[r].kind = "login" /\ req[r].pc = "save"
                    /\ req'[r].status = 200
                    /\ req'[r].token.userId = users.docs[i].id]_vars

\* what the handlers do ensure: the user of an issued token existed and was
\* active when the handler read it
C25_ActiveWhenRead ==
    [][\A r \in Slots : TokenIssued(r) =>
            /\ req'[r].user.isActive
            /\ req'[r].user.id = req'[r].token.userId
            /\ req[r].kind = "login" =>
                    Compare(req[r].password, req'[r].user.password)]_vars

\* no two stored users share an email or a username
NoTwoUsersShare(docs) ==
    \A i, j \in 1..Len(docs) :
        i /= j => docs[i].email /= docs[j].email /\ docs[i].username /= docs[j].username

\* register request r is answered in this step
RegisterAnswered(r) ==
    /\ req[r].kind = "register"
    /\ req[r].pc \notin {"idle", "done"} /\ req'[r].pc = "done"

\* C26: a register request whose email or username belongs to a stored user
\* when it is answered responds 409 (the store working) and creates no user,
\* and no two stored users ever share an email or a username.
C26_UserUniqueness ==
    [][/\ \A r \in Slots :
            (/\ RegisterAnswered(r)
             /\ FindOneByEmailOrUsername(req[r].email, req[r].username) /= {}
             /\ req'[r].error /= "store")
            => req'[r].status = 409 /\ users' = users
       /\ NoTwoUsersShare(users'.docs)]_vars

\* what register does ensure: a request that finds the email or the username
\* taken at its findOne responds 409 and creates no user
C26_TakenAtFindOne ==
    [][\A r \in Slots :
            (/\ RegisterAnswered(r) /\ req[r].pc = "findOne"
             /\ FindOneByEmailOrUsername(req[r].email, req[r].username) /= {}
             /\ req'[r].error /= "store")
            => req'[r].status = 409 /\ users' = users]_vars

\* with the unique index the stored users stay apart, whatever register does
C26_IndexKeepsUsersApart == users.unique => NoTwoUsersShare(users.docs)

\* a call of transaction that acquired a connection has ended
TransactionEnded(r) ==
    req[r].kind = "transaction" /\ req[r].pc = "done" /\ req[r].acquired

\* C27: for every call of transaction that acquires a connection, the work of
\* the callback is committed exactly when callback and commit both succeed,
\* otherwise it is rolled back and the caught error is rethrown; commit and
\* rollback never both take effect; the connection is released exactly once.
C27_Transaction ==
    \A r \in Slots : TransactionEnded(r) =>
        LET q == req[r]
        IN  /\ q.committed <=> (q.callbackOk /\ q.commitOk)
            /\ q.committed => <<"entries", q.work>> \in db.rows /\ q.thrown = NoValue
            /\ ~q.committed =>
                    /\ q.rolledBack
                    /\ <<"entries", q.work>> \notin db.rows \cup db.connection.pending
                    /\ q.thrown = q.error /\ q.error /= NoValue
            /\ ~(q.committed /\ q.rolledBack)
            /\ q.releases = 1

\* what transaction does ensure, rollback failing or not: commit and rollback
\* never both take effect, the work is stored exactly when callback and commit
\* both succeeded, a failing call throws, and the connection is released once
C27_ReleasedOnce ==
    \A r \in Slots : TransactionEnded(r) =>
        LET q == req[r]
        IN  /\ q.committed <=> (q.callbackOk /\ q.commitOk)
            /\ q.committed <=> <<"entries", q.work>> \in db.rows
            /\ q.committed <=> q.thrown = NoValue
            /\ ~(q.committed /\ q.rolledBack)
            /\ q.releases = 1
            /\ ~db.connection.held

GuardedKinds == {"rollback", "fresh", "dropAllTables", "truncateAllTables"}

ProductionErrors ==
    {"Cannot rollback in production environment!",
     "Cannot drop tables in production environment",
     "Cannot truncate tables in production environment"}

\* C28: when NODE_ENV is production, rollback, dropAllTables, truncateAllTables
\* and the 'fresh' command fail before any SQL statement is issued: no table
\* is dropped or truncated, FOREIGN_KEY_CHECKS is not disabled, and 'fresh'
\* runs neither the migrations nor the seeding.
C28_ProductionGuard ==
    [][processEnv.NODE_ENV = "production" =>
        \A r \in Slots : (req'[r].kind \in GuardedKinds /\ req'[r] /= req[r]) =>
            /\ req'[r].pc = "done" /\ req'[r].thrown \in ProductionErrors
            /\ db'.issued = db.issued
            /\ db'.tables = db.tables /\ db'.rows = db.rows
            /\ db'.foreignKeyChecks = db.foreignKeyChecks
            /\ req'[r].kind = "fresh" =>
                    req'[r].ran = <<"rollback">> /\ req'[r].exitCode = 1]_vars

\* 'fresh' has been refused in production on a database that has tables
C28_Witness ==
    /\ processEnv.NODE_ENV = "production"
    /\ db.tables /= {} /\ db.rows /= {} /\ db.foreignKeyChecks
    /\ \E r \in Slots : req[r].kind = "fresh" /\ req[r].pc = "done" /\ req[r].exitCode = 1

\* every fetch has been answered and none is about to start
ScreenSettled ==
    screen.mounted /\ screen.inFlight = {} /\ screen.timer = NoResponse

\* C29: once every fetchUsers call in flight has completed, the users and the
\* pagination shown are those of the response to the current filters and
\* loading is false, in whatever order the responses arrived; and loading is
\* true whenever a fetch is in flight.
C29_ScreenConsistent ==
    /\ (ScreenSettled /\ screen.error = NoValue) =>
            /\ screen.users = ResponseTo(screen.filters)
            /\ screen.pagination = ResponseTo(screen.filters)
            /\ ~screen.loading
    /\ (screen.mounted /\ screen.inFlight /= {}) => screen.loading

\* what the screen does ensure: it shows the response that arrived last, and
\* an arrival clears loading
C29_ShowsLastArrival ==
    [][(screen'.inFlight /= screen.inFlight /\ screen'.inFlight \subseteq screen.inFlight
        /\ screen'.error = NoValue)
       => \E fetch \in screen.inFlight \ screen'.inFlight :
            /\ screen'.users = ResponseTo(fetch.filters)
            /\ screen'.pagination = ResponseTo(fetch.filters)
            /\ ~screen'.loading]_vars

====
